---- MODULE Spec2Model ----
(***************************************************************************)
(* Structured-generation validation and repair pipeline of the trip        *)
(* planner API (src/api/main.py): JSON extraction, the two bounded retry   *)
(* loops (itinerary and fashion recommendation requests), the fashion      *)
(* payload shape check and the recommendation validator.                   *)
(*                                                                         *)
(* Python strings are sequences of one-character strings.  Python values   *)
(* (the result of json.loads) are tagged records [type, val].              *)
(***************************************************************************)
EXTENDS Integers, Sequences, FiniteSets, TLC

\* ------------------------------------------------------------------------
\* Bounds of the model
\* ------------------------------------------------------------------------
MaxNoise == 2        \* longest prefix / suffix noise around an embedded object
MaxText == 5         \* longest arbitrary text handed to extract_json_object

\* ------------------------------------------------------------------------
\* Strings
\* ------------------------------------------------------------------------
SeqsUpTo(S, n) == UNION {[1..k -> S] : k \in 0..n}

Whitespace == {" ", "\n"}

RECURSIVE LStrip(_)
LStrip(s) ==
  IF s # <<>> /\ Head(s) \in Whitespace THEN LStrip(Tail(s)) ELSE s

RECURSIVE RStrip(_)
RStrip(s) ==
  IF s # <<>> /\ s[Len(s)] \in Whitespace THEN RStrip(SubSeq(s, 1, Len(s) - 1)) ELSE s

\* str.strip()
Strip(s) == RStrip(LStrip(s))

UpperLetters ==
  <<"A", "B", "C", "D", "E", "F", "G", "H", "I", "J", "K", "L", "M",
    "N", "O", "P", "Q", "R", "S", "T", "U", "V", "W", "X", "Y", "Z">>

LowerLetters ==
  <<"a", "b", "c", "d", "e", "f", "g", "h", "i", "j", "k", "l", "m",
    "n", "o", "p", "q", "r", "s", "t", "u", "v", "w", "x", "y", "z">>

\* str.lower() on one character
LowerChar(c) ==
  IF \E i \in 1..26 : UpperLetters[i] = c
  THEN LowerLetters[CHOOSE i \in 1..26 : UpperLetters[i] = c]
  ELSE c

Lower(s) == [i \in 1..Len(s) |-> LowerChar(s[i])]

StartsWith(s, p) == Len(s) >= Len(p) /\ SubSeq(s, 1, Len(p)) = p

EndsWith(s, p) == Len(s) >= Len(p) /\ SubSeq(s, Len(s) - Len(p) + 1, Len(s)) = p

\* The backtick character (written as a name: the character itself is not
\* usable in a TLA+ source file).
Backtick == "tick"

Fence == <<Backtick, Backtick, Backtick>>
FenceJson == Fence \o <<"j", "s", "o", "n">>

\* re.sub of an opening fence, optionally followed by json, case-insensitive
StripOpeningFence(text) ==
  IF StartsWith(Lower(text), FenceJson) THEN SubSeq(text, 8, Len(text))
  ELSE IF StartsWith(text, Fence) THEN SubSeq(text, 4, Len(text))
  ELSE text

\* re.sub of a fence at the very end of the text
StripClosingFence(text) ==
  IF EndsWith(text, Fence) THEN SubSeq(text, 1, Len(text) - 3) ELSE text

\* str.find('{') as a 1-based index, 0 when absent
FindBrace(text) ==
  IF \E i \in 1..Len(text) : text[i] = "{"
  THEN CHOOSE i \in 1..Len(text) : text[i] = "{" /\ \A j \in 1..(i - 1) : text[j] # "{"
  ELSE 0

ExtractOk(t) == [ok |-> TRUE, text |-> t, error |-> "none"]
ExtractFail(e) == [ok |-> FALSE, text |-> <<>>, error |-> e]

\* The scanning loop of extract_json_object from position index on.
RECURSIVE ScanFromIgnoringStrings(_, _, _, _, _, _)
ScanFromIgnoringStrings(text, start, index, depth, in_string, escape) ==
  IF index > Len(text) THEN ExtractFail("Incomplete JSON object in response")
  ELSE IF text[index] = "{"
       THEN ScanFromIgnoringStrings(text, start, index + 1, depth + 1, FALSE, FALSE)
       ELSE IF text[index] = "}"
            THEN IF depth - 1 = 0 THEN ExtractOk(SubSeq(text, start, index))
                 ELSE ScanFromIgnoringStrings(text, start, index + 1, depth - 1, FALSE, FALSE)
            ELSE ScanFromIgnoringStrings(text, start, index + 1, depth, FALSE, FALSE)

RECURSIVE ScanFromFirstClose(_, _, _, _, _, _)
ScanFromFirstClose(text, start, index, depth, in_string, escape) ==
  IF index > Len(text) THEN ExtractFail("Incomplete JSON object in response")
  ELSE
    LET char == text[index]
        in_string1 == IF char = "\"" /\ ~escape THEN ~in_string ELSE in_string
    IN IF in_string1 /\ char = "\\" /\ ~escape
       THEN ScanFromFirstClose(text, start, index + 1, depth, in_string1, TRUE)
       ELSE IF in_string1
            THEN ScanFromFirstClose(text, start, index + 1, depth, in_string1, FALSE)
            ELSE IF char = "{"
                 THEN ScanFromFirstClose(text, start, index + 1, depth + 1, in_string1, FALSE)
                 ELSE IF char = "}"
                      THEN ExtractOk(SubSeq(text, start, index))
                      ELSE ScanFromFirstClose(text, start, index + 1, depth, in_string1, FALSE)

RECURSIVE ScanFrom(_, _, _, _, _, _)
ScanFrom(text, start, index, depth, in_string, escape) ==
  IF index > Len(text) THEN ExtractFail("Incomplete JSON object in response")
  ELSE
    LET char == text[index]
        in_string1 == IF char = "\"" /\ ~escape THEN ~in_string ELSE in_string
    IN IF in_string1 /\ char = "\\" /\ ~escape
       THEN ScanFrom(text, start, index + 1, depth, in_string1, TRUE)
       ELSE IF in_string1
            THEN ScanFrom(text, start, index + 1, depth, in_string1, FALSE)
            ELSE IF char = "{"
                 THEN ScanFrom(text, start, index + 1, depth + 1, in_string1, FALSE)
                 ELSE IF char = "}"
                      THEN IF depth - 1 = 0
                           THEN ExtractOk(SubSeq(text, start, index))
                           ELSE ScanFrom(text, start, index + 1, depth - 1, in_string1, FALSE)
                      ELSE ScanFrom(text, start, index + 1, depth, in_string1, FALSE)

\* extract_json_object(raw_text); a None response is the empty sequence.
extract_json_object(raw_text) ==
  IF raw_text = <<>> THEN ExtractFail("Empty response from model")
  ELSE
    LET text0 == Strip(raw_text)
        text == IF StartsWith(text0, Fence)
                THEN Strip(StripClosingFence(Strip(StripOpeningFence(text0))))
                ELSE text0
        start == FindBrace(text)
    IN IF start = 0 THEN ExtractFail("No JSON object found in response")
       ELSE ScanFrom(text, start, start, 0, FALSE, FALSE)

\* ------------------------------------------------------------------------
\* Python values (results of json.loads): None, str, number, list, dict.
\* A dict is the sequence of its key/value pairs in insertion order.
\* ------------------------------------------------------------------------
PyNone == [type |-> "none"]
PyStr(s) == [type |-> "str", s |-> s]
PyNum(n) == [type |-> "num", n |-> n]
PyList(items) == [type |-> "list", items |-> items]
PyDict(kv) == [type |-> "dict", kv |-> kv]

IsStr(v) == v.type = "str"
IsNum(v) == v.type = "num"
IsList(v) == v.type = "list"
IsDict(v) == v.type = "dict"

KV(k, v) == [k |-> k, v |-> v]
Keys(d) == {d.kv[i].k : i \in 1..Len(d.kv)}
HasKey(d, k) == k \in Keys(d)

\* dict.get(k): None when the key is absent
Get(d, k) ==
  IF HasKey(d, k)
  THEN d.kv[CHOOSE i \in 1..Len(d.kv) : d.kv[i].k = k].v
  ELSE PyNone

\* d[k] = v: replaces the value in place, or appends a new key
SetKey(d, k, v) ==
  IF HasKey(d, k)
  THEN PyDict([i \in 1..Len(d.kv) |-> IF d.kv[i].k = k THEN KV(k, v) ELSE d.kv[i]])
  ELSE PyDict(Append(d.kv, KV(k, v)))

DelKey(d, k) ==
  LET Keep(p) == p.k # k IN PyDict(SelectSeq(d.kv, Keep))

\* isinstance(v, str) and v.strip() is non-empty
NonBlankStr(v) == IsStr(v) /\ Strip(v.s) # <<>>

\* ------------------------------------------------------------------------
\* Fashion payload shape check
\* ------------------------------------------------------------------------
Categories == <<"men", "women", "kids", "accessories">>
CategorySet == {Categories[i] : i \in 1..Len(Categories)}

required_fields ==
  {"title", "description", "shopping_keywords", "price_in_inr", "style_tags", "weather_note"}

\* the per-entry checks of _is_valid_fashion_payload
ValidFashionEntryLoose(entry) ==
  /\ IsDict(entry)
  /\ NonBlankStr(Get(entry, "title"))
  /\ NonBlankStr(Get(entry, "description"))
  /\ NonBlankStr(Get(entry, "shopping_keywords"))
  /\ NonBlankStr(Get(entry, "weather_note"))

ValidFashionEntry(entry) ==
  /\ IsDict(entry)
  /\ required_fields \subseteq Keys(entry)
  /\ NonBlankStr(Get(entry, "title"))
  /\ NonBlankStr(Get(entry, "description"))
  /\ NonBlankStr(Get(entry, "shopping_keywords"))
  /\ NonBlankStr(Get(entry, "weather_note"))

_is_valid_fashion_payload(payload) ==
  /\ IsDict(payload)
  /\ \A c \in 1..Len(Categories) :
       LET entries == Get(payload, Categories[c])
       IN /\ IsList(entries)
          /\ Len(entries.items) = 4
          /\ \A e \in 1..Len(entries.items) : ValidFashionEntry(entries.items[e])

\* ------------------------------------------------------------------------
\* Fashion payloads of the model: a well-formed payload and its variants
\* ------------------------------------------------------------------------
CategoryChar(c) ==
  CASE c = "men" -> "m" [] c = "women" -> "w" [] c = "kids" -> "k" [] OTHER -> "a"

Digit(i) == CASE i = 1 -> "1" [] i = 2 -> "2" [] i = 3 -> "3" [] i = 4 -> "4" [] OTHER -> "5"

BaseEntry(c, i) ==
  PyDict(<< KV("title", PyStr(<<CategoryChar(c), Digit(i)>>)),
            KV("description", PyStr(<<"d">>)),
            KV("style_tags", PyList(<<PyStr(<<"t">>)>>)),
            KV("shopping_keywords", PyStr(<<"k", Digit(i)>>)),
            KV("price_in_inr", PyNum(i * 1000)),
            KV("weather_note", PyStr(<<"n">>)) >>)

BaseEntries(c, n) == PyList([i \in 1..n |-> BaseEntry(c, i)])

BasePayload ==
  PyDict([c \in 1..Len(Categories) |-> KV(Categories[c], BaseEntries(Categories[c], 4))])

StringFields == {"title", "description", "shopping_keywords", "weather_note"}

\* the entry at position i of category c replaced by e
WithEntry(payload, c, i, e) ==
  LET entries == Get(payload, c)
  IN SetKey(payload, c, PyList([entries.items EXCEPT ![i] = e]))

PayloadKinds == {"not_dict", "extra_key", "drop_category", "category_not_list",
                 "three_entries", "five_entries"}
EntryKinds == {"entry_not_dict", "extra_field", "price_string", "price_blank",
               "tags_not_list", "tags_empty"}
FieldKinds == {"drop_field", "blank_field", "empty_field", "number_field", "none_field"}

Variants ==
  {[kind |-> "base", cat |-> "men", idx |-> 1, field |-> "title"]}
  \cup {[kind |-> k, cat |-> c, idx |-> 1, field |-> "title"] : k \in PayloadKinds, c \in CategorySet}
  \cup {[kind |-> k, cat |-> c, idx |-> i, field |-> "title"] :
          k \in EntryKinds, c \in CategorySet, i \in 1..4}
  \cup {[kind |-> k, cat |-> c, idx |-> i, field |-> f] :
          k \in FieldKinds, c \in CategorySet, i \in 1..4, f \in required_fields}

VariantPayload(m) ==
  LET entry == BaseEntry(m.cat, m.idx)
  IN CASE m.kind = "base" -> BasePayload
       [] m.kind = "not_dict" ->
            (CASE m.cat = "men" -> PyList(<<BasePayload>>)
               [] m.cat = "women" -> PyNone
               [] m.cat = "kids" -> PyStr(<<"x">>)
               [] OTHER -> PyNum(4))
       [] m.kind = "extra_key" -> SetKey(BasePayload, "unisex", BaseEntries(m.cat, 4))
       [] m.kind = "drop_category" -> DelKey(BasePayload, m.cat)
       [] m.kind = "category_not_list" -> SetKey(BasePayload, m.cat, BaseEntry(m.cat, 1))
       [] m.kind = "three_entries" -> SetKey(BasePayload, m.cat, BaseEntries(m.cat, 3))
       [] m.kind = "five_entries" -> SetKey(BasePayload, m.cat, BaseEntries(m.cat, 5))
       [] m.kind = "entry_not_dict" -> WithEntry(BasePayload, m.cat, m.idx, PyStr(<<"x">>))
       [] m.kind = "extra_field" ->
            WithEntry(BasePayload, m.cat, m.idx, SetKey(entry, "brand", PyStr(<<"b">>)))
       [] m.kind = "price_string" ->
            WithEntry(BasePayload, m.cat, m.idx,
                      SetKey(entry, "price_in_inr", PyStr(<<"R", "2", ",", "5", "0", "0">>)))
       [] m.kind = "price_blank" ->
            WithEntry(BasePayload, m.cat, m.idx, SetKey(entry, "price_in_inr", PyStr(<<>>)))
       [] m.kind = "tags_not_list" ->
            WithEntry(BasePayload, m.cat, m.idx, SetKey(entry, "style_tags", PyStr(<<"t">>)))
       [] m.kind = "tags_empty" ->
            WithEntry(BasePayload, m.cat, m.idx, SetKey(entry, "style_tags", PyList(<<>>)))
       [] m.kind = "drop_field" ->
            WithEntry(BasePayload, m.cat, m.idx, DelKey(entry, m.field))
       [] m.kind = "blank_field" ->
            WithEntry(BasePayload, m.cat, m.idx, SetKey(entry, m.field, PyStr(<<" ", "\n">>)))
       [] m.kind = "empty_field" ->
            WithEntry(BasePayload, m.cat, m.idx, SetKey(entry, m.field, PyStr(<<>>)))
       [] m.kind = "number_field" ->
            WithEntry(BasePayload, m.cat, m.idx, SetKey(entry, m.field, PyNum(7)))
       [] OTHER ->
            WithEntry(BasePayload, m.cat, m.idx, SetKey(entry, m.field, PyNone))

\* ------------------------------------------------------------------------
\* Errors: the message of a raised exception with the values formatted into it
\* ------------------------------------------------------------------------
Err(msg, cat, title) == [msg |-> msg, cat |-> cat, title |-> title, attempt |-> 0, inner |-> "none"]
AttemptErr(msg, attempt, inner) ==
  [msg |-> msg, cat |-> "none", title |-> <<>>, attempt |-> attempt, inner |-> inner]
NoError == Err("none", "none", <<>>)

\* ------------------------------------------------------------------------
\* Image-lookup collaborator (search_images); its behaviour is the
\* environment's choice
\* ------------------------------------------------------------------------
SearchModes == {"hits", "empty", "nolink", "http_error", "crash"}

Image(link) == [link |-> link, thumbnail |-> PyNone, context |-> PyNone]

\* search_images(query, num): a list of image records, or an exception
search_images(mode, query) ==
  CASE mode = "hits" ->
         [raised |-> "none", images |-> <<Image(PyNone), Image(PyStr(<<"u", ":">> \o query))>>]
    [] mode = "nolink" -> [raised |-> "none", images |-> <<Image(PyNone), Image(PyStr(<<>>))>>]
    [] mode = "empty" -> [raised |-> "none", images |-> <<>>]
    [] mode = "http_error" -> [raised |-> "HTTPException", images |-> <<>>]
    [] OTHER -> [raised |-> "Exception", images |-> <<>>]

\* ------------------------------------------------------------------------
\* Recommendation validator
\* ------------------------------------------------------------------------
DigitChars == {"0", "1", "2", "3", "4", "5", "6", "7", "8", "9"}

DigitVal(c) ==
  CASE c = "0" -> 0 [] c = "1" -> 1 [] c = "2" -> 2 [] c = "3" -> 3 [] c = "4" -> 4
    [] c = "5" -> 5 [] c = "6" -> 6 [] c = "7" -> 7 [] c = "8" -> 8 [] OTHER -> 9

DigitOf(n) ==
  CASE n = 0 -> "0" [] n = 1 -> "1" [] n = 2 -> "2" [] n = 3 -> "3" [] n = 4 -> "4"
    [] n = 5 -> "5" [] n = 6 -> "6" [] n = 7 -> "7" [] n = 8 -> "8" [] OTHER -> "9"

RECURSIVE NatToStr(_)
NatToStr(n) == IF n < 10 THEN <<DigitOf(n)>> ELSE NatToStr(n \div 10) \o <<DigitOf(n % 10)>>

RECURSIVE DigitsToNat(_)
DigitsToNat(ds) ==
  IF ds = <<>> THEN 0 ELSE DigitsToNat(SubSeq(ds, 1, Len(ds) - 1)) * 10 + DigitVal(ds[Len(ds)])

\* str(value)
PyToStr(v) ==
  CASE v.type = "str" -> v.s
    [] v.type = "none" -> <<"N", "o", "n", "e">>
    [] v.type = "num" -> IF v.n < 0 THEN <<"-">> \o NatToStr(-v.n) ELSE NatToStr(v.n)
    [] v.type = "list" -> <<"[", "]">>
    [] OTHER -> <<"{", "}">>

\* str(entry.get(key, "")).strip()
FieldText(entry, key) == IF HasKey(entry, key) THEN Strip(PyToStr(Get(entry, key))) ELSE <<>>

\* re.sub(r"[^\d.]", "", price_raw)
DigitsOnly(s) == LET Keep(c) == c \in DigitChars \cup {"."} IN SelectSeq(s, Keep)

\* int(float(digits_only)): -1 stands for the ValueError of float()
IntOfFloat(ds) ==
  LET dots == {i \in 1..Len(ds) : ds[i] = "."}
  IN IF Cardinality(dots) > 1 \/ Cardinality(dots) = Len(ds) THEN -1
     ELSE IF dots = {} THEN DigitsToNat(ds)
     ELSE LET d == CHOOSE i \in dots : TRUE IN DigitsToNat(SubSeq(ds, 1, d - 1))

\* the price coercion of _prepare_fashion_results: -1 stands for None
PriceValue(price_raw) ==
  IF price_raw.type = "num" THEN price_raw.n
  ELSE IF price_raw.type = "str"
       THEN LET digits_only == DigitsOnly(price_raw.s)
            IN IF digits_only # <<>> THEN IntOfFloat(digits_only) ELSE -1
       ELSE -1

\* " ".join(term for term in terms if term)
RECURSIVE JoinTerms(_)
JoinTerms(terms) ==
  IF terms = <<>> THEN <<>>
  ELSE LET rest == JoinTerms(Tail(terms))
       IN IF Head(terms) = <<>> THEN rest
          ELSE IF rest = <<>> THEN Head(terms)
          ELSE Head(terms) \o <<" ">> \o rest

CategoryText(c) ==
  CASE c = "men" -> <<"m", "e", "n">>
    [] c = "women" -> <<"w", "o", "m", "e", "n">>
    [] c = "kids" -> <<"k", "i", "d", "s">>
    [] OTHER -> <<"a", "c", "c">>

TravelOutfit == <<"t", "r", "a", "v", "e", "l", " ", "o", "u", "t", "f", "i", "t">>

CacheHas(cache, key) == \E i \in 1..Len(cache) : cache[i].k = key
CacheGet(cache, key) == cache[CHOOSE i \in 1..Len(cache) : cache[i].k = key].v

\* first image of the list that has a non-empty link, PyNone when there is none
Hero(images) ==
  LET linked == {i \in 1..Len(images) : images[i].link.type = "str" /\ images[i].link.s # <<>>}
  IN IF linked = {} THEN PyNone
     ELSE images[CHOOSE i \in linked : \A j \in linked : i <= j]

\* State of one _prepare_fashion_results call: results so far, the first
\* exception raised (if any), the image cache and the lookups made.
PrepareStart ==
  [raised |-> "none", error |-> NoError, results |-> <<>>, image_cache |-> <<>>,
   lookups |-> <<>>, formatted |-> <<>>, seen |-> {}]

Raise(st, kind, err) == [st EXCEPT !.raised = kind, !.error = err]

\* style_tags: the trimmed non-blank strings of the list, [] for a non-list
StyleTags(tags_raw) ==
  LET KeepTag(t) == NonBlankStr(t)
      Trimmed(kept) == [i \in 1..Len(kept) |-> Strip(kept[i].s)]
  IN IF IsList(tags_raw) THEN Trimmed(SelectSeq(tags_raw.items, KeepTag)) ELSE <<>>

\* query = " ".join(term for term in query_terms if term).strip()
ImageQuery(shopping_keywords, title, city, c) ==
  Strip(JoinTerms(<<IF shopping_keywords # <<>> THEN shopping_keywords ELSE title,
                    city, CategoryText(c), TravelOutfit>>))

BindEntryNoDedup(st, c, item, images) ==
  IF Hero(images) = PyNone
  THEN Raise(st, "ValueError", Err("No imagery", c, item.title))
  ELSE [st EXCEPT !.seen = @ \cup {<<Lower(item.title), Lower(item.shopping_keywords)>>},
                  !.formatted = Append(@, [item EXCEPT !.image_url = Hero(images).link.s])]

\* lines 998-1018: hero image, duplicate key, formatted.append(...)
BindEntry(st, c, item, images) ==
  IF Hero(images) = PyNone
  THEN Raise(st, "ValueError", Err("No imagery", c, item.title))
  ELSE IF <<Lower(item.title), Lower(item.shopping_keywords)>> \in st.seen
  THEN Raise(st, "ValueError", Err("Duplicate look", c, <<>>))
  ELSE [st EXCEPT !.seen = @ \cup {<<Lower(item.title), Lower(item.shopping_keywords)>>},
                  !.formatted = Append(@, [item EXCEPT !.image_url = Hero(images).link.s])]

\* the uncached branch of _fetch_images, then the rest of the iteration
FetchedEntry(st, c, item, key, found) ==
  IF found.raised = "Exception"
  THEN Raise(st, "Exception", Err("search_images failed", c, item.title))
  ELSE BindEntry([st EXCEPT !.image_cache = Append(@, KV(key, found.images))], c, item, found.images)

LookupEntryUncached(st, mode, c, item, query) ==
  FetchedEntry([st EXCEPT !.lookups = Append(@, query)], c, item,
               Lower(Strip(query)), search_images(mode, query))

\* images = _fetch_images(query), then the rest of the iteration
LookupEntry(st, mode, c, item, query) ==
  IF CacheHas(st.image_cache, Lower(Strip(query)))
  THEN BindEntry(st, c, item, CacheGet(st.image_cache, Lower(Strip(query))))
  ELSE FetchedEntry([st EXCEPT !.lookups = Append(@, query)], c, item,
                    Lower(Strip(query)), search_images(mode, query))

CheckEntryNoBudget(st, mode, city, budget, c, item) ==
  IF item.title = <<>> \/ item.description = <<>> \/ item.shopping_keywords = <<>>
       \/ item.weather_note = <<>>
  THEN Raise(st, "ValueError", Err("Missing fields", c, <<>>))
  ELSE IF item.price_in_inr = -1
  THEN Raise(st, "ValueError", Err("Missing price", c, item.title))
  ELSE LookupEntry(st, mode, c, item,
                   ImageQuery(item.shopping_keywords, item.title, city, c))

CheckEntryLookupFirst(st, mode, city, budget, c, item) ==
  IF item.title = <<>> \/ item.description = <<>> \/ item.shopping_keywords = <<>>
       \/ item.weather_note = <<>>
  THEN Raise(st, "ValueError", Err("Missing fields", c, <<>>))
  ELSE IF item.price_in_inr = -1
  THEN Raise(st, "ValueError", Err("Missing price", c, item.title))
  ELSE IF budget > 0 /\ item.price_in_inr > budget
  THEN Raise([st EXCEPT !.lookups =
                LookupEntry(st, mode, c, item,
                            ImageQuery(item.shopping_keywords, item.title, city, c)).lookups],
             "ValueError", Err("Exceeds budget", c, item.title))
  ELSE LookupEntry(st, mode, c, item,
                   ImageQuery(item.shopping_keywords, item.title, city, c))

\* lines 966-997: field, price and budget checks of one entry
CheckEntry(st, mode, city, budget, c, item) ==
  IF item.title = <<>> \/ item.description = <<>> \/ item.shopping_keywords = <<>>
       \/ item.weather_note = <<>>
  THEN Raise(st, "ValueError", Err("Missing fields", c, <<>>))
  ELSE IF item.price_in_inr = -1
  THEN Raise(st, "ValueError", Err("Missing price", c, item.title))
  ELSE IF budget > 0 /\ item.price_in_inr > budget
  THEN Raise(st, "ValueError", Err("Exceeds budget", c, item.title))
  ELSE LookupEntry(st, mode, c, item,
                   ImageQuery(item.shopping_keywords, item.title, city, c))

\* one iteration of "for entry in entries" for category c
PrepareEntry(st, mode, city, budget, c, entry) ==
  IF st.raised # "none" THEN st
  ELSE IF ~IsDict(entry) THEN Raise(st, "ValueError", Err("Invalid entry", c, <<>>))
  ELSE CheckEntry(st, mode, city, budget, c,
                  [title |-> FieldText(entry, "title"),
                   description |-> FieldText(entry, "description"),
                   style_tags |-> StyleTags(Get(entry, "style_tags")),
                   shopping_keywords |-> FieldText(entry, "shopping_keywords"),
                   price_in_inr |-> PriceValue(Get(entry, "price_in_inr")),
                   weather_note |-> FieldText(entry, "weather_note"),
                   image_url |-> <<>>])

RECURSIVE PrepareEntries(_, _, _, _, _, _)
PrepareEntries(st, mode, city, budget, c, entries) ==
  IF entries = <<>> THEN st
  ELSE PrepareEntries(PrepareEntry(st, mode, city, budget, c, Head(entries)),
                      mode, city, budget, c, Tail(entries))

\* end of one category: len(formatted) != 4 check, results[category] = formatted
CloseCategory(st, c) ==
  IF st.raised # "none" THEN st
  ELSE IF Len(st.formatted) # 4 THEN Raise(st, "ValueError", Err("Incomplete looks", c, <<>>))
  ELSE [st EXCEPT !.results = Append(@, KV(c, st.formatted))]

\* one iteration of "for category in categories"
PrepareCategory(st, mode, city, budget, payload, c) ==
  IF st.raised # "none" THEN st
  ELSE IF ~IsList(Get(payload, c)) \/ Len(Get(payload, c).items) # 4
  THEN Raise(st, "ValueError", Err("Incomplete looks", c, <<>>))
  ELSE CloseCategory(PrepareEntries([st EXCEPT !.formatted = <<>>, !.seen = {}],
                                    mode, city, budget, c, Get(payload, c).items), c)

RECURSIVE PrepareCategories(_, _, _, _, _, _)
PrepareCategories(st, mode, city, budget, payload, cats) ==
  IF cats = <<>> THEN st
  ELSE PrepareCategories(PrepareCategory(st, mode, city, budget, payload, Head(cats)),
                         mode, city, budget, payload, Tail(cats))

\* _prepare_fashion_results(city, budget, payload); budget 0 stands for None
\* a raised exception discards the partial results
PrepareResultPartial(st) == st

PrepareResult(st) == IF st.raised = "none" THEN st ELSE [st EXCEPT !.results = <<>>]

_prepare_fashion_results(mode, city, budget, payload) ==
  PrepareResult(PrepareCategories(PrepareStart, mode, city, budget, payload, Categories))

\* ------------------------------------------------------------------------
\* Itinerary normalizer
\* ------------------------------------------------------------------------
\* date.fromisoformat / isoformat for the days of one month: a start date is
\* the day of the month, 0 when startDate does not parse
IsoDate(day) ==
  <<"2", "0", "2", "5", "-", "0", "1", "-">> \o (IF day < 10 THEN <<"0">> ELSE <<>>) \o NatToStr(day)

\* ", ".join(themes)
RECURSIVE JoinThemes(_)
JoinThemes(themes) ==
  IF themes = <<>> THEN <<>>
  ELSE IF Len(themes) = 1 THEN Head(themes)
  ELSE Head(themes) \o <<",", " ">> \o JoinThemes(Tail(themes))

IsDigitStr(s) == s # <<>> /\ \A i \in 1..Len(s) : s[i] \in DigitChars

\* if not isinstance(d.get(key), str) or not d[key].strip(): d[key] = default
FillStr(d, key, default) ==
  IF NonBlankStr(Get(d, key)) THEN d ELSE SetKey(d, key, PyStr(default))

SlotTimeUnclamped(activity_index) ==
  LET Two(h) == (IF h < 10 THEN <<"0">> ELSE <<>>) \o NatToStr(h)
  IN Two(9 + activity_index * 2) \o <<":", "0", "0">>

\* f"{slot_hour:02d}:00" with slot_hour = max(6, min(9 + 2 * activity_index, 22))
SlotTime(activity_index) ==
  LET Clamp(h) == IF h > 22 THEN 22 ELSE IF h < 6 THEN 6 ELSE h
      Two(h) == (IF h < 10 THEN <<"0">> ELSE <<>>) \o NatToStr(h)
  IN Two(Clamp(9 + activity_index * 2)) \o <<":", "0", "0">>

NormalizeTime(a, activity_index) ==
  IF NonBlankStr(Get(a, "time"))
  THEN SetKey(a, "time", PyStr(Strip(Get(a, "time").s)))
  ELSE SetKey(a, "time", PyStr(SlotTime(activity_index)))

CostOfString(cleaned) ==
  IF IsDigitStr(cleaned) THEN PyNum(DigitsToNat(cleaned)) ELSE PyStr(cleaned)

NormalizeCost(a) ==
  IF IsNum(Get(a, "cost")) THEN SetKey(a, "cost", PyNum(Get(a, "cost").n))
  ELSE IF IsStr(Get(a, "cost")) THEN SetKey(a, "cost", CostOfString(Strip(Get(a, "cost").s)))
  ELSE SetKey(a, "cost", PyStr(<<"I", "n", "c", "l", "u", "d", "e", "d">>))

NormalizeSource(a) ==
  IF NonBlankStr(Get(a, "source"))
  THEN SetKey(a, "source", PyStr(Strip(Get(a, "source").s)))
  ELSE SetKey(a, "source", PyStr(<<"a", "i">>))

NormalizeImages(a) ==
  IF IsList(Get(a, "images")) THEN a ELSE SetKey(a, "images", PyList(<<>>))

AsDict(activity) == IF IsDict(activity) THEN activity ELSE PyDict(<<>>)

\* one iteration of "for activity_index, activity in enumerate(activities)"
NormalizeActivity(activity, activity_index, prefs) ==
  NormalizeImages(NormalizeSource(NormalizeCost(NormalizeTime(
    FillStr(FillStr(FillStr(AsDict(activity),
        "title", <<"E", "x", "p", "e", "r", "i", "e", "n", "c", "e", " ">> \o NatToStr(activity_index + 1)),
        "description", <<"C", "u", "r", "a", "t", "e", "d">>),
        "location", prefs.destination),
    activity_index))))

NormalizeDate(day, day_index, prefs) ==
  IF prefs.startDate # 0 /\ ~NonBlankStr(Get(day, "date"))
  THEN SetKey(day, "date", PyStr(IsoDate(prefs.startDate + day_index)))
  ELSE day

Motifs(themes) == IF JoinThemes(themes) # <<>> THEN JoinThemes(themes) ELSE <<"l", "o", "c", "a", "l">>

NormalizeActivitiesDropping(day, prefs) ==
  IF ~IsList(Get(day, "activities")) THEN SetKey(day, "activities", PyList(<<>>))
  ELSE SetKey(day, "activities",
              PyList([i \in 1..Len(SelectSeq(Get(day, "activities").items, IsDict)) |->
                        NormalizeActivity(SelectSeq(Get(day, "activities").items, IsDict)[i],
                                          i - 1, prefs)]))

NormalizeActivities(day, prefs) ==
  IF ~IsList(Get(day, "activities")) THEN SetKey(day, "activities", PyList(<<>>))
  ELSE SetKey(day, "activities",
              PyList([i \in 1..Len(Get(day, "activities").items) |->
                        NormalizeActivity(Get(day, "activities").items[i], i - 1, prefs)]))

\* one iteration of "for day_index, day in enumerate(days)"
NormalizeDay(day, day_index, prefs) ==
  IF ~IsDict(day) THEN day
  ELSE NormalizeActivities(
         FillStr(NormalizeDate(FillStr(day, "dateLabel", <<"D", "a", "y", " ">> \o NatToStr(day_index + 1)),
                               day_index, prefs),
                 "summary", prefs.destination \o <<":">> \o Motifs(prefs.themes)),
         prefs)

\* _extract_total_cost(itinerary)
RECURSIVE SumAmounts(_)
SumAmounts(items) ==
  IF items = <<>> THEN 0
  ELSE (IF IsDict(Head(items)) /\ IsNum(Get(Head(items), "amount"))
        THEN Get(Head(items), "amount").n ELSE 0) + SumAmounts(Tail(items))

_extract_total_cost(itinerary) ==
  IF IsNum(Get(itinerary, "totalEstimatedCost")) THEN Get(itinerary, "totalEstimatedCost").n
  ELSE IF IsList(Get(itinerary, "costBreakdown"))
  THEN SumAmounts(Get(itinerary, "costBreakdown").items)
  ELSE 0

\* "for item in breakdown" raises TypeError when costBreakdown is a non-zero number
ExtractTotalCostRaises(itinerary) ==
  /\ ~IsNum(Get(itinerary, "totalEstimatedCost"))
  /\ IsNum(Get(itinerary, "costBreakdown"))
  /\ Get(itinerary, "costBreakdown").n # 0

\* _normalize_itinerary(itinerary, prefs): the itinerary after the call
NormalizeRaises(itinerary) ==
  IsList(Get(itinerary, "days")) /\ ExtractTotalCostRaises(itinerary)

NormalizeTotal(itinerary) ==
  IF IsNum(Get(itinerary, "totalEstimatedCost")) THEN itinerary
  ELSE SetKey(itinerary, "totalEstimatedCost", PyNum(_extract_total_cost(itinerary)))

NormalizeBreakdown(itinerary) ==
  IF IsList(Get(itinerary, "costBreakdown")) THEN itinerary
  ELSE SetKey(itinerary, "costBreakdown", PyList(<<>>))

NormalizeDays(itinerary, prefs) ==
  SetKey(itinerary, "days",
         PyList([d \in 1..Len(Get(itinerary, "days").items) |->
                   NormalizeDay(Get(itinerary, "days").items[d], d - 1, prefs)]))

\* _normalize_itinerary(itinerary, prefs): the itinerary after the call
_normalize_itinerary(itinerary, prefs) ==
  IF ~IsList(Get(itinerary, "days")) THEN SetKey(itinerary, "days", PyList(<<>>))
  ELSE NormalizeBreakdown(NormalizeTotal(NormalizeDays(itinerary, prefs)))

\* ------------------------------------------------------------------------
\* Insight scorer: compute_trip_insights
\* ------------------------------------------------------------------------
\* "needle in text"
Contains(text, needle) ==
  \E i \in 0..(Len(text) - Len(needle)) : SubSeq(text, i + 1, i + Len(needle)) = needle

\* the number of places where needle occurs in text
Occurrences(text, needle) ==
  Cardinality({i \in 0..(Len(text) - Len(needle)) : SubSeq(text, i + 1, i + Len(needle)) = needle})

RECURSIVE TotalOccurrences(_, _)
TotalOccurrences(text, needles) ==
  IF needles = {} THEN 0
  ELSE LET n == CHOOSE x \in needles : TRUE
       IN Occurrences(text, n) + TotalOccurrences(text, needles \ {n})

ContainsAny(text, needles) == \E n \in needles : Contains(text, n)

\* re.sub(r"\s+", " ", text)
RECURSIVE CollapseSpaces(_)
CollapseSpaces(s) ==
  IF s = <<>> THEN <<>>
  ELSE IF Head(s) \in Whitespace THEN <<" ">> \o CollapseSpaces(LStrip(Tail(s)))
  ELSE <<Head(s)>> \o CollapseSpaces(Tail(s))

\* _clean_snippet(text) on the text of a field; a missing field reads as ""
_clean_snippet(v) ==
  IF ~IsStr(v) THEN <<>>
  ELSE Strip(CollapseSpaces([i \in 1..Len(v.s) |-> IF v.s[i] = "?" THEN "-" ELSE v.s[i]]))

\* " ".join(parts)
RECURSIVE JoinSpace(_)
JoinSpace(parts) ==
  IF parts = <<>> THEN <<>>
  ELSE IF Len(parts) = 1 THEN Head(parts)
  ELSE Head(parts) \o <<" ">> \o JoinSpace(Tail(parts))

RECURSIVE SumSeq(_)
SumSeq(ns) == IF ns = <<>> THEN 0 ELSE Head(ns) + SumSeq(Tail(ns))

SetMax(S) == CHOOSE x \in S : \A y \in S : y <= x
SetMin(S) == CHOOSE x \in S : \A y \in S : x <= y
Smaller(a, b) == IF a <= b THEN a ELSE b
Larger(a, b) == IF a >= b THEN a ELSE b
Clamp(lo, hi, n) == IF n < lo THEN lo ELSE IF n > hi THEN hi ELSE n

\* int(x) of the quotient num / den, den > 0: truncation towards zero
IntPart(num, den) == IF num >= 0 THEN num \div den ELSE 0 - ((0 - num) \div den)

\* int(round(num / den)), den > 0, when num / den is no tie
RoundDiv(num, den) == (2 * num + den) \div (2 * den)

\* num / den > p / q and num / den < p / q, den # 0, q > 0
RatioAbove(num, den, p, q) == IF den > 0 THEN q * num > p * den ELSE q * num < p * den
RatioBelow(num, den, p, q) == IF den > 0 THEN q * num < p * den ELSE q * num > p * den

\* int(text): [ok, n]
PyInt(text) ==
  LET s == Strip(text)
      digits == IF s # <<>> /\ Head(s) \in {"+", "-"} THEN Tail(s) ELSE s
  IN IF ~IsDigitStr(digits) THEN [ok |-> FALSE, n |-> 0]
     ELSE [ok |-> TRUE, n |-> IF Head(s) = "-" THEN 0 - DigitsToNat(digits) ELSE DigitsToNat(digits)]

\* value.split(":", 1) when the separator occurs
ColonAt(s) == CHOOSE i \in 1..Len(s) : s[i] = ":" /\ \A j \in 1..(i - 1) : s[j] # ":"

MinutesOf(hour, minute) ==
  IF hour.ok /\ minute.ok THEN [ok |-> TRUE, n |-> hour.n * 60 + minute.n] ELSE [ok |-> FALSE, n |-> 0]

\* _parse_minutes(value): [ok, n], ok = FALSE for None
_parse_minutes(value) ==
  IF ~IsStr(value) \/ value.s = <<>> \/ ~Contains(value.s, <<":">>) THEN [ok |-> FALSE, n |-> 0]
  ELSE MinutesOf(PyInt(SubSeq(value.s, 1, ColonAt(value.s) - 1)),
                 PyInt(SubSeq(value.s, ColonAt(value.s) + 1, Len(value.s))))

\* x or []
OrEmptyList(v) == IF IsList(v) THEN v.items ELSE <<>>

DaysOf(itinerary) == OrEmptyList(Get(itinerary, "days"))
ActivitiesOfDay(day) == OrEmptyList(Get(day, "activities"))

\* total_cost = total_cost or budget or 1
EffectiveTotal(total, budget) == IF total # 0 THEN total ELSE IF budget # 0 THEN budget ELSE 1

\* lines 493-506
BudgetScore(budget, total_cost) ==
  IF budget <= 0 THEN 75
  ELSE IF total_cost <= budget
  THEN Smaller(100, 82 + IntPart(25 * (budget - total_cost), budget))
  ELSE Larger(30, IntPart(82 * budget - 90 * (total_cost - budget), budget))

BudgetAlerts(budget, total_cost) ==
  IF budget > 0 /\ total_cost > budget THEN <<"Projected spend exceeds budget">> ELSE <<>>

BudgetActionsFromFifteen(budget, total_cost) ==
  IF budget <= 0 THEN <<>>
  ELSE IF total_cost <= budget
  THEN (IF 100 * (budget - total_cost) >= 15 * budget THEN <<"Reinvest budget buffer">> ELSE <<>>)
  ELSE <<"Enable budget guardrails">>

BudgetActions(budget, total_cost) ==
  IF budget <= 0 THEN <<>>
  ELSE IF total_cost <= budget
  THEN (IF 100 * (budget - total_cost) > 15 * budget THEN <<"Reinvest budget buffer">> ELSE <<>>)
  ELSE <<"Enable budget guardrails">>

\* lines 509-517
DayMinutes(day) ==
  {_parse_minutes(Get(ActivitiesOfDay(day)[i], "time")).n :
     i \in {j \in 1..Len(ActivitiesOfDay(day)) : _parse_minutes(Get(ActivitiesOfDay(day)[j], "time")).ok}}

HasMinutes(day) == DayMinutes(day) # {}
DaySpan(day) == SetMax(DayMinutes(day)) - SetMin(DayMinutes(day))

Spans(days) ==
  [i \in 1..Len(SelectSeq(days, HasMinutes)) |-> DaySpan(SelectSeq(days, HasMinutes)[i])]

ActivityCounts(days) == [i \in 1..Len(days) |-> Len(ActivitiesOfDay(days[i]))]

\* lines 518-530
SpanPenalty(spans) ==
  IF spans = <<>> THEN 0
  ELSE (IF SumSeq(spans) > 720 * Len(spans) THEN 12 ELSE 0)
       + (IF \E i \in 1..Len(spans) : spans[i] > 840 THEN 10 ELSE 0)

Crowded(counts) == counts # <<>> /\ 5 * SumSeq(counts) > 21 * Len(counts)

LogisticsScore(days) ==
  Clamp(35, 100, 82 - SpanPenalty(Spans(days)) - (IF Crowded(ActivityCounts(days)) THEN 8 ELSE 0))

LogisticsActions(days) == IF Crowded(ActivityCounts(days)) THEN <<"Trim one activity">> ELSE <<>>

\* lines 533-548
SevereTerms == {<<"s", "t", "o", "r", "m">>, <<"c", "y", "c", "l", "o", "n", "e">>, <<"h", "e", "a", "v", "y">>, <<"e", "x", "t", "r", "e", "m", "e">>}
RainTerms == {<<"r", "a", "i", "n">>, <<"s", "h", "o", "w", "e", "r">>}

WeatherBranchRainFirst(advisory) ==
  IF ~NonBlankStr(advisory) THEN "none"
  ELSE IF ContainsAny(Lower(advisory.s), RainTerms) THEN "rain"
  ELSE IF ContainsAny(Lower(advisory.s), SevereTerms) THEN "severe"
  ELSE IF Contains(Lower(advisory.s), <<"h", "e", "a", "t">>) THEN "heat"
  ELSE "other"

WeatherBranch(advisory) ==
  IF ~NonBlankStr(advisory) THEN "none"
  ELSE IF ContainsAny(Lower(advisory.s), SevereTerms) THEN "severe"
  ELSE IF ContainsAny(Lower(advisory.s), RainTerms) THEN "rain"
  ELSE IF Contains(Lower(advisory.s), <<"h", "e", "a", "t">>) THEN "heat"
  ELSE "other"

WeatherScore(branch) ==
  Clamp(30, 100, CASE branch = "severe" -> 55 [] branch = "rain" -> 70 [] branch = "heat" -> 68
                   [] branch = "other" -> 78 [] OTHER -> 90)

WeatherAlerts(branch) == IF branch = "severe" THEN <<"Severe weather flagged">> ELSE <<>>

WeatherActions(branch) ==
  IF branch = "severe" THEN <<"Shift exposed activities indoors">>
  ELSE IF branch = "rain" THEN <<"Pack light rain gear">> ELSE <<>>

\* lines 551-555
ActivityText(a) == _clean_snippet(Get(a, "title")) \o <<" ">> \o _clean_snippet(Get(a, "description"))

RECURSIVE ActivityTexts(_)
ActivityTexts(days) ==
  IF days = <<>> THEN <<>>
  ELSE [i \in 1..Len(ActivitiesOfDay(Head(days))) |-> ActivityText(ActivitiesOfDay(Head(days))[i])]
       \o ActivityTexts(Tail(days))

activities_blob(days) == Lower(JoinSpace(ActivityTexts(days)))

\* lines 556-557
GreenKeywords == {<<"w", "a", "l", "k">>, <<"w", "a", "l", "k", "i", "n", "g">>, <<"c", "y", "c", "l", "e">>, <<"p", "u", "b", "l", "i", "c">>, <<"m", "e", "t", "r", "o">>, <<"l", "o", "c", "a", "l", " ", "m", "a", "r", "k", "e", "t">>}
CarbonKeywords == {<<"t", "a", "x", "i">>, <<"c", "a", "b">>, <<"p", "r", "i", "v", "a", "t", "e">>, <<"d", "r", "i", "v", "e">>, <<"s", "u", "v">>}

HitsPerOccurrence(blob, keywords) == TotalOccurrences(blob, keywords)

\* sum(keyword in blob for keyword in keywords): one hit per keyword that occurs
Hits(blob, keywords) == Cardinality({k \in keywords : Contains(blob, k)})

\* lines 559-564
IsTransport(item) ==
  /\ IsDict(item) /\ IsStr(Get(item, "category"))
  /\ Contains(Lower(Get(item, "category").s), <<"t", "r", "a", "n", "s", "p", "o", "r", "t">>)
  /\ IsNum(Get(item, "amount"))

RECURSIVE TransportCost(_)
TransportCost(items) ==
  IF items = <<>> THEN 0
  ELSE (IF IsTransport(Head(items)) THEN Get(Head(items), "amount").n ELSE 0) + TransportCost(Tail(items))

\* lines 565-571
ShareAdjustment(transport_cost, total_cost) ==
  IF RatioAbove(transport_cost, total_cost, 35, 100) THEN 0 - 12
  ELSE IF RatioBelow(transport_cost, total_cost, 15, 100) THEN 6 ELSE 0

KeywordScore(blob) == 74 + Hits(blob, GreenKeywords) * 4 - Hits(blob, CarbonKeywords) * 5

SustainabilityScore(blob, transport_cost, total_cost) ==
  Clamp(25, 100, KeywordScore(blob) + ShareAdjustment(transport_cost, total_cost))

SustainabilityActions(transport_cost, total_cost) ==
  IF RatioAbove(transport_cost, total_cost, 35, 100) THEN <<"Swap at least one cab ride">> ELSE <<>>

\* lines 575-582
Summaries(days) == [i \in 1..Len(days) |-> _clean_snippet(Get(days[i], "summary"))]

text_blob(days) == Lower(activities_blob(days) \o <<" ">> \o JoinSpace(Summaries(days)))

Matches(themes, blob) ==
  Cardinality({i \in 1..Len(themes) : Lower(themes[i]) # <<>> /\ Contains(blob, Lower(themes[i]))})

ExperienceScore(themes, matches) ==
  IF themes = <<>> THEN Clamp(35, 100, 98)
  ELSE Clamp(35, 100, 68 + IntPart(30 * matches, Len(themes)))

ExperienceActions(themes, matches) ==
  IF themes # <<>> /\ 2 * matches < Len(themes) THEN <<"Infuse more of the selected themes">> ELSE <<>>

\* lines 584-623
AxisStatus(score) == IF score >= 80 THEN "great" ELSE IF score >= 60 THEN "caution" ELSE "risk"
Axis(id, score) == [id |-> id, score |-> score, status |-> AxisStatus(score)]
Badge(overall) ==
  IF overall >= 80 THEN "Launch-ready" ELSE IF overall >= 65 THEN "Tune & shine" ELSE "Needs attention"

OverallTruncated(axes) == SumSeq([i \in 1..Len(axes) |-> axes[i].score]) \div Len(axes)

Overall(axes) == RoundDiv(SumSeq([i \in 1..Len(axes) |-> axes[i].score]), Len(axes))

InsightReport(axes, alerts, actions) ==
  [raised |-> FALSE, overallScore |-> Overall(axes), badge |-> Badge(Overall(axes)),
   axes |-> axes, alerts |-> alerts, suggestedActions |-> actions]

InsightsFailed == [raised |-> TRUE, overallScore |-> 0, badge |-> "none",
                   axes |-> <<>>, alerts |-> <<>>, suggestedActions |-> <<>>]

\* "for item in breakdown" on a number, day.get(...) on a day and a.get(...) on
\* an activity that is no mapping raise
InsightsRaise(itinerary) ==
  \/ IsNum(Get(itinerary, "costBreakdown")) /\ Get(itinerary, "costBreakdown").n # 0
  \/ IsStr(Get(itinerary, "days")) /\ Get(itinerary, "days").s # <<>>
  \/ \E d \in 1..Len(DaysOf(itinerary)) :
       \/ ~IsDict(DaysOf(itinerary)[d])
       \/ \E i \in 1..Len(ActivitiesOfDay(DaysOf(itinerary)[d])) :
            ~IsDict(ActivitiesOfDay(DaysOf(itinerary)[d])[i])

Scored(budget, total_cost, days, branch, blob, transport_cost, themes, matches) ==
  InsightReport(
    << Axis("budget", BudgetScore(budget, total_cost)),
       Axis("logistics", LogisticsScore(days)),
       Axis("weather", WeatherScore(branch)),
       Axis("impact", SustainabilityScore(blob, transport_cost, total_cost)),
       Axis("experience", ExperienceScore(themes, matches)) >>,
    BudgetAlerts(budget, total_cost) \o WeatherAlerts(branch),
    BudgetActions(budget, total_cost) \o LogisticsActions(days) \o WeatherActions(branch)
      \o SustainabilityActions(transport_cost, total_cost) \o ExperienceActions(themes, matches))

\* compute_trip_insights(itinerary, prefs)
compute_trip_insights(itinerary, prefs) ==
  IF InsightsRaise(itinerary) THEN InsightsFailed
  ELSE Scored(prefs.budget,
              EffectiveTotal(_extract_total_cost(itinerary), prefs.budget),
              DaysOf(itinerary),
              WeatherBranch(Get(itinerary, "weatherAdvisory")),
              activities_blob(DaysOf(itinerary)),
              TransportCost(OrEmptyList(Get(itinerary, "costBreakdown"))),
              prefs.themes,
              Matches(prefs.themes, text_blob(DaysOf(itinerary))))

\* ------------------------------------------------------------------------
\* Narrations: generate_day_narrations
\* ------------------------------------------------------------------------
\* len(text.split())
RECURSIVE WordCount(_)
WordCount(s) ==
  IF LStrip(s) = <<>> THEN 0
  ELSE LET word == LStrip(s)
           rest == IF \E i \in 1..Len(word) : word[i] \in Whitespace
                   THEN SubSeq(word, CHOOSE i \in 1..Len(word) :
                                       word[i] \in Whitespace /\ \A j \in 1..(i - 1) : word[j] \notin Whitespace,
                               Len(word))
                   ELSE <<>>
       IN 1 + WordCount(rest)

\* x is truthy: "if a.get('title')", "x or default"
Truthy(v) ==
  CASE v.type = "none" -> FALSE
    [] v.type = "str" -> v.s # <<>>
    [] v.type = "num" -> v.n # 0
    [] v.type = "list" -> v.items # <<>>
    [] OTHER -> v.kv # <<>>

\* the cleaned titles of the day's activities that have one
Highlights(activities) ==
  LET Titled(a) == Truthy(Get(a, "title")) /\ _clean_snippet(Get(a, "title")) # <<>>
  IN [i \in 1..Len(SelectSeq(activities, Titled)) |->
        _clean_snippet(Get(SelectSeq(activities, Titled)[i], "title"))]

Opening(index, destination, summary) ==
  <<"D", "a", "y", " ">> \o NatToStr(index) \o <<" ", "i", "n", " ">> \o destination \o <<":", " ">>
    \o (IF summary # <<>> THEN summary ELSE <<"t", "a", "i", "l", "o", "r", "e", "d", " ", "e", "x", "p", "e", "r", "i", "e", "n", "c", "e", "s", " ", "a", "w", "a", "i", "t", ".">>)

HighlightBits(titles) ==
  IF titles = <<>> THEN <<>>
  ELSE IF titles[1] # titles[Len(titles)]
  THEN << <<"S", "t", "a", "r", "t", " ", "w", "i", "t", "h", " ">> \o titles[1] \o <<" ", "a", "n", "d", " ", "w", "r", "a", "p", " ", "u", "p", " ", "a", "t", " ">> \o titles[Len(titles)] \o <<".">> >>
  ELSE << <<"E", "x", "p", "e", "c", "t", " ">> \o titles[1] \o <<" ", "a", "s", " ", "a", " ", "s", "i", "g", "n", "a", "t", "u", "r", "e", " ", "m", "o", "m", "e", "n", "t", ".">> >>

WeatherBits(advisory) ==
  IF NonBlankStr(advisory) THEN << <<"W", "e", "a", "t", "h", "e", "r", " ", "w", "a", "t", "c", "h", ":", " ">> \o Strip(advisory.s) >> ELSE <<>>

Script(day, index, itinerary, prefs) ==
  JoinSpace(<<Opening(index, prefs.destination, _clean_snippet(Get(day, "summary")))>>
            \o HighlightBits(Highlights(ActivitiesOfDay(day)))
            \o WeatherBits(Get(itinerary, "weatherAdvisory")))

DayLabel(day, index) ==
  IF Truthy(Get(day, "dateLabel")) THEN Get(day, "dateLabel") ELSE PyStr(<<"D", "a", "y", " ">> \o NatToStr(index))

Narration(label, script) ==
  PyDict(<<KV("day", label), KV("script", PyStr(script)), KV("mood", PyStr(<<"u", "p", "l", "i", "f", "t", "i", "n", "g">>)),
           KV("lengthSeconds", PyNum(Larger(18, Smaller(45, WordCount(script) * 2))))>>)

\* day.get(...) on a day and a.get(...) on an activity that is no mapping raise
NarrationsRaise(itinerary) ==
  \/ IsStr(Get(itinerary, "days")) /\ Get(itinerary, "days").s # <<>>
  \/ \E d \in 1..Len(DaysOf(itinerary)) :
       \/ ~IsDict(DaysOf(itinerary)[d])
       \/ \E i \in 1..Len(ActivitiesOfDay(DaysOf(itinerary)[d])) :
            ~IsDict(ActivitiesOfDay(DaysOf(itinerary)[d])[i])

\* generate_day_narrations(itinerary, prefs), when it does not raise
generate_day_narrations(itinerary, prefs) ==
  PyList([d \in 1..Len(DaysOf(itinerary)) |->
            Narration(DayLabel(DaysOf(itinerary)[d], d),
                      Script(DaysOf(itinerary)[d], d, itinerary, prefs))])

\* ------------------------------------------------------------------------
\* Model output: response texts and the documents they denote.
\* The body of a JSON object is written as one token naming the document; the
\* extractor treats every character other than braces, double quotes and
\* backslashes alike.
\* ------------------------------------------------------------------------
Activity1 ==
  PyDict(<< KV("time", PyStr(<<"1", "0", ":", "3", "0">>)), KV("title", PyStr(<<"F", "o", "r", "t">>)),
            KV("description", PyStr(<<"d">>)), KV("location", PyStr(<<"G", "o", "a">>)),
            KV("cost", PyNum(500)), KV("source", PyStr(<<"a", "i">>)) >>)

ItineraryDoc(body) ==
  CASE body = "full" ->
         PyDict(<< KV("days", PyList(<< PyDict(<< KV("summary", PyStr(<<"s">>)),
                                                KV("activities", PyList(<<Activity1, PyDict(<<>>)>>)) >>) >>)),
                   KV("totalEstimatedCost", PyNum(900)) >>)
    [] body = "sparse" -> PyDict(<< KV("days", PyList(<<PyDict(<<>>)>>)) >>)
    [] body = "emptydays" -> PyDict(<< KV("days", PyList(<<>>)) >>)
    [] body = "badday" -> PyDict(<< KV("days", PyList(<<PyNum(1)>>)) >>)
    [] body = "nobreak" -> PyDict(<< KV("costBreakdown", PyNum(5)) >>)
    [] OTHER -> PyDict(<< KV("days", PyStr(<<"x">>)) >>)

ItineraryBodies == {"full", "sparse", "emptydays", "badday", "nobreak", "daysstr"}

DuplicateEntry == SetKey(BaseEntry("men", 1), "price_in_inr", PyNum(1))

FashionDoc(body) ==
  CASE body = "looks" -> BasePayload
    [] body = "three" -> SetKey(BasePayload, "kids", BaseEntries("kids", 3))
    [] body = "pricey" ->
         WithEntry(BasePayload, "women", 2, SetKey(BaseEntry("women", 2), "price_in_inr", PyNum(9000)))
    [] OTHER -> WithEntry(BasePayload, "men", 3, DuplicateEntry)

FashionBodies == {"looks", "three", "pricey", "dup"}

Stay(name, price) ==
  PyDict(<< KV("name", PyStr(name)), KV("approx_price_in_inr", PyNum(price)),
            KV("price_in_inr", PyNum(price)) >>)

\* hotel and flight options
ListDoc(body) ==
  CASE body = "stays" ->
         PyList(<< Stay(<<"I", "n", "n">>, 3000), Stay(<<"R", "i", "t", "z">>, 9000),
                   PyDict(<< KV("price_in_inr", PyNum(1000)) >>) >>)
    [] body = "costly" -> PyList(<< Stay(<<"R", "i", "t", "z">>, 9000), Stay(<<"T", "a", "j">>, 6000) >>)
    [] OTHER -> PyList(<< PyNum(1) >>)

ListBodies == {"stays", "costly", "odd"}

Obj(body) == <<"{", body, "}">>
Null == <<"n", "u", "l", "l">>

LoadOk(doc) == [ok |-> TRUE, doc |-> doc]
LoadFail == [ok |-> FALSE, doc |-> PyNone]

\* json.loads(text) on the texts of the model
JsonLoads(text0) ==
  LET text == Strip(text0)
  IN IF text = <<"{", "}">> THEN LoadOk(PyDict(<<>>))
     ELSE IF text = <<"[", "]">> THEN LoadOk(PyList(<<>>))
     ELSE IF text = Null THEN LoadOk(PyNone)
     ELSE IF Len(text) = 3 /\ text[1] = "{" /\ text[3] = "}" /\ text[2] \in ItineraryBodies
          THEN LoadOk(ItineraryDoc(text[2]))
     ELSE IF Len(text) = 3 /\ text[1] = "{" /\ text[3] = "}" /\ text[2] \in FashionBodies
          THEN LoadOk(FashionDoc(text[2]))
     ELSE IF Len(text) = 3 /\ text[1] = "[" /\ text[3] = "]" /\ text[2] \in ListBodies
          THEN LoadOk(ListDoc(text[2]))
     ELSE LoadFail

Fenced(text) == FenceJson \o <<"\n">> \o text \o <<"\n">> \o Fence

\* what the generation collaborator may answer to one call
Answer(text) == [raised |-> FALSE, text |-> text]
GenerationError == [raised |-> TRUE, text |-> <<>>]

CommonTexts ==
  { <<>>, <<"x">>, <<"[", "]">>, <<"x", "{", "?", "}">> }

ItineraryAnswers ==
  { Answer(t) : t \in CommonTexts \cup { Obj(b) : b \in ItineraryBodies }
                         \cup { <<"{", "}">>, Null, Fenced(Obj("full")), <<"{", "full">> } }
  \cup {GenerationError}

FashionAnswers ==
  { Answer(t) : t \in CommonTexts \cup { Obj(b) : b \in FashionBodies }
                         \cup { Fenced(Obj("looks")), <<"x", "{", "looks">> } }
  \cup {GenerationError}

ProviderAnswers ==
  { Answer(t) : t \in CommonTexts \cup { <<"[", b, "]">> : b \in ListBodies } \cup { <<"{", "}">>, Null } }
  \cup {GenerationError}

AnswersOf(k) ==
  IF k = "itinerary" THEN ItineraryAnswers
  ELSE IF k = "fashion" THEN FashionAnswers ELSE ProviderAnswers

\* ------------------------------------------------------------------------
\* State
\* ------------------------------------------------------------------------
VARIABLES
  kind,        \* the request: "itinerary" (generate_live_itinerary), "fashion" (suggest_fashion),
               \* "hotels" (suggest_hotels) or "flights" (suggest_flights)
  env,         \* the request's inputs and the image-lookup collaborator's behaviour
  script,      \* what the generation collaborator answers to the first calls
  pc,          \* position of the handler: "generate", "parse", "finish", "done"
  attempt,     \* loop variable of the retry loop
  calls,       \* the generation calls made so far, with the instruction of each
  raw_text,    \* text of the latest response
  last_error,  \* last_error
  candidate,   \* itinerary (itinerary request) / suggestions (fashion request)
  outcome,     \* the response sent to the caller
  hist,        \* history: parse steps finished, accepted attempt, normalizer input
  storage,     \* the stored documents, by identifier
  session,     \* the voice session
  fn_in,       \* input of a pure-function application
  fn_out       \* its result

mvars == <<kind, env, script, pc, attempt, calls, raw_text, last_error, candidate, outcome, hist,
           storage, session>>
fvars == <<fn_in, fn_out>>
vars == <<kind, env, script, pc, attempt, calls, raw_text, last_error, candidate, outcome, hist,
          storage, session, fn_in, fn_out>>

NoInput == [op |-> "none", prefix |-> <<>>, opening |-> <<>>, json |-> <<>>,
            closing |-> <<>>, suffix |-> <<>>, text |-> <<>>,
            variant |-> [kind |-> "none"], payload |-> PyNone,
            start |-> 0, mode |-> "hits", budget |-> 0]

NoOutcome == [status |-> 0, detail |-> NoError, body |-> PyNone]
NoHist == [parses |-> 0, accepted |-> 0, normalized |-> PyNone, rejected |-> 0, reasons |-> <<>>]

Prefs == [destination |-> <<"G", "o", "a">>, budget |-> 20000, startDate |-> 5, endDate |-> 6,
          themes |-> << <<"f", "o", "o", "d">> >>]

\* ------------------------------------------------------------------------
\* Persistence collaborator: the documents of the Firestore collection
\* ------------------------------------------------------------------------
StoreIds == {"t1", "gone", "new"}

NoProviders == [hotels |-> PyNone, flights |-> PyNone, fashion |-> PyNone]

NoDoc == [exists |-> FALSE, itinerary |-> PyNone, preferences |-> PyNone,
          updatedAt |-> "never", providers |-> NoProviders]

EmptyStorage == [id \in StoreIds |-> NoDoc]

\* save_itinerary(doc_id, payload): document(doc_id).set(payload) replaces the document
save_itinerary(store, doc_id, payload) ==
  [store EXCEPT ![doc_id] = [exists |-> TRUE, itinerary |-> payload.itinerary,
                             preferences |-> payload.preferences,
                             updatedAt |-> payload.updatedAt, providers |-> NoProviders]]

UpdateReplacingDocument(store, doc_id, provider, payload) ==
  [store EXCEPT ![doc_id] = [NoDoc EXCEPT !.exists = TRUE, !.providers[provider] = payload]]

\* update_itinerary_fields(doc_id, {"providers": {provider: payload}}):
\* document(doc_id).set(data, merge=True) creates the document when it is missing
\* and touches no field that data does not name
update_itinerary_fields(store, doc_id, provider, payload) ==
  [store EXCEPT ![doc_id].exists = TRUE, ![doc_id].providers[provider] = payload]

\* a document saved by an earlier itinerary request, with hotel results merged in
StoredTrip ==
  [exists |-> TRUE, itinerary |-> PyDict(<<KV("id", PyStr(<<"t1">>)), KV("days", PyList(<<>>))>>),
   preferences |-> Prefs, updatedAt |-> "earlier",
   providers |-> [NoProviders EXCEPT !.hotels = PyDict(<<KV("results", PyList(<<>>))>>)]]

InitialStorage == [EmptyStorage EXCEPT !["t1"] = StoredTrip]

\* the voice session before /voice/session/start
NoSession == [started |-> FALSE]

\* the request machine at rest (pure-function specifications)
MIdle ==
  /\ kind = "none"
  /\ env = [search |-> "hits", budget |-> 0, city |-> <<>>, store |-> "up", itinerary_id |-> ""]
  /\ storage = EmptyStorage /\ session = NoSession
  /\ script = <<>> /\ pc = "done" /\ attempt = 0 /\ calls = <<>> /\ raw_text = <<>>
  /\ last_error = NoError /\ candidate = PyNone /\ outcome = NoOutcome /\ hist = NoHist

\* ------------------------------------------------------------------------
\* The two retry loops
\* ------------------------------------------------------------------------
MAX_GEMINI_ATTEMPTS == 1
max_attempts == 3

AttemptLimitPlusOne(k) == IF k = "itinerary" THEN MAX_GEMINI_ATTEMPTS + 1 ELSE max_attempts + 1

\* range(MAX_GEMINI_ATTEMPTS) / range(max_attempts)
AttemptLimit(k) == IF k = "itinerary" THEN MAX_GEMINI_ATTEMPTS ELSE max_attempts

\* the script covers one call more than the itinerary loop makes, so that the
\* answer a further call would receive is defined; later calls repeat the last
ScriptLen(k) ==
  IF k = "itinerary" THEN MAX_GEMINI_ATTEMPTS + 1 ELSE IF k = "fashion" THEN max_attempts ELSE 1
Response(n) == IF n <= Len(script) THEN script[n] ELSE script[Len(script)]

InstructionAlwaysBase(a) == "base"

\* instruction = base_instruction if attempt == 0 else strict_instruction
Instruction(a) == IF a = 0 THEN "base" ELSE "strict"

\* the request's parameters, the image-lookup collaborator's behaviour (search)
\* and the persistence collaborator's (store)
Envs ==
  [search : SearchModes, budget : {0, 4000}, city : {<<"G", "o", "a">>}, store : {"up"},
   itinerary_id : {""}]
  \cup { [search |-> "hits", budget |-> 4000, city |-> <<"G", "o", "a">>, store |-> w[1],
          itinerary_id |-> w[2]] :
            w \in {<<"up", "t1">>, <<"up", "gone">>, <<"down", "">>, <<"down", "t1">>} }

Init ==
  /\ kind \in {"itinerary", "fashion", "hotels", "flights"}
  /\ env \in Envs
  /\ kind = "itinerary" => env.itinerary_id = ""
  /\ script \in [1..ScriptLen(kind) -> AnswersOf(kind)]
  /\ storage = InitialStorage /\ session = NoSession
  /\ pc = "generate" /\ attempt = 0 /\ calls = <<>> /\ raw_text = <<>>
  /\ last_error = NoError /\ candidate = PyNone /\ outcome = NoOutcome /\ hist = NoHist
  /\ fn_in = NoInput /\ fn_out = ExtractFail("pending")

\* history of a failed attempt
Failed(h, err) == [h EXCEPT !.parses = @ + 1, !.reasons = Append(@, err)]

\* "continue": next iteration, or leave the loop when the range is exhausted
Continue(err) ==
  /\ last_error' = err
  /\ attempt' = attempt + 1
  /\ pc' = IF attempt + 1 < AttemptLimit(kind) THEN "generate" ELSE "finish"

\* an exception leaves the handler: HTTPException(502, str(exc)) in the
\* itinerary request, JSONResponse({"error": str(exc)}, 500) in the fashion one
Fail(status, err) ==
  /\ outcome' = [status |-> status, detail |-> err, body |-> PyNone]
  /\ pc' = "done"

\* client.models.generate_content(...) of either loop
Generate ==
  /\ pc = "generate"
  /\ calls' = Append(calls, [attempt |-> attempt, instruction |-> Instruction(attempt)])
  /\ LET resp == Response(Len(calls) + 1)
     IN IF resp.raised
        THEN /\ Fail(IF kind = "itinerary" THEN 502 ELSE 500,
                     Err("generate_content failed", "none", <<>>))
             /\ hist' = [hist EXCEPT !.reasons = Append(@, Err("generate_content failed", "none", <<>>))]
             /\ UNCHANGED raw_text
        ELSE /\ raw_text' = resp.text
             /\ pc' = "parse"
             /\ UNCHANGED <<outcome, hist>>
  /\ UNCHANGED <<kind, env, script, attempt, last_error, candidate, fvars, storage, session>>

Parsed(stage, doc, error) == [stage |-> stage, doc |-> doc, error |-> error]

\* json.loads(cleaned_text) after a successful extraction
ParseCleaned(loaded) ==
  IF loaded.ok THEN Parsed("ok", loaded.doc, "none") ELSE Parsed("decode", PyNone, "JSONDecodeError")

\* extract_json_object(raw_text), then json.loads of what it returns
ParseExtracted(cleaned) ==
  IF cleaned.ok THEN ParseCleaned(JsonLoads(cleaned.text)) ELSE Parsed("extract", PyNone, cleaned.error)

ParseDirect(text, direct) ==
  IF text # <<>> /\ direct.ok THEN Parsed("ok", direct.doc, "none")
  ELSE ParseExtracted(extract_json_object(text))

\* the text of an attempt parsed: json.loads, on failure extract_json_object + json.loads
ParseText(text) == ParseDirect(text, JsonLoads(text))

\* lines 1149-1152: the fields the handler sets on the parsed itinerary
Stamp(doc) ==
  SetKey(SetKey(SetKey(doc,
     "destination", PyStr(Prefs.destination \o <<",", " ", "I", "n", "d", "i", "a">>)),
     "budget", PyNum(Prefs.budget)),
     "currency", PyStr(<<"I", "N", "R">>))

ItineraryParsed(parsed) ==
  IF parsed.stage = "extract"
  THEN /\ Continue(AttemptErr("Parse failure on attempt", attempt + 1, parsed.error))
       /\ hist' = Failed(hist, AttemptErr("Parse failure on attempt", attempt + 1, parsed.error))
       /\ UNCHANGED <<candidate, outcome>>
  ELSE IF parsed.stage = "decode"
  THEN /\ Continue(AttemptErr("JSON load failure on attempt", attempt + 1, parsed.error))
       /\ hist' = Failed(hist, AttemptErr("JSON load failure on attempt", attempt + 1, parsed.error))
       /\ UNCHANGED <<candidate, outcome>>
  ELSE IF ~IsDict(parsed.doc)
  THEN \* itinerary["destination"] = ... raises TypeError, caught at line 1160
       /\ candidate' = parsed.doc
       /\ Fail(502, Err("TypeError", "none", <<>>))
       /\ hist' = Failed(hist, Err("TypeError", "none", <<>>))
       /\ UNCHANGED <<attempt, last_error>>
  ELSE /\ candidate' = Stamp(parsed.doc)
       /\ pc' = "finish"
       /\ hist' = [hist EXCEPT !.parses = @ + 1, !.accepted = attempt + 1]
       /\ UNCHANGED <<attempt, last_error, outcome>>

\* body of the itinerary loop after the generation call (lines 1125-1153)
ParseItinerary ==
  /\ pc = "parse" /\ kind = "itinerary"
  /\ IF raw_text = <<>>
     THEN /\ Continue(Err("Gemini returned an empty response", "none", <<>>))
          /\ hist' = Failed(hist, Err("Gemini returned an empty response", "none", <<>>))
          /\ UNCHANGED <<candidate, outcome>>
     ELSE ItineraryParsed(ParseText(raw_text))
  /\ UNCHANGED <<kind, env, script, calls, raw_text, fvars, storage, session>>

ActivityKey(location, title) ==
  IF NonBlankStr(location) THEN Strip(location.s)
  ELSE IF NonBlankStr(title) THEN Strip(title.s) ELSE <<>>

LinkedImages(images) ==
  LET Linked(img) == img.link.type = "str" /\ img.link.s # <<>>
      Links(linked) == [i \in 1..Len(linked) |-> linked[i].link]
  IN PyList(Links(SelectSeq(images, Linked)))

AttachKeyed(activity, mode, key) ==
  IF key = <<>> THEN SetKey(activity, "images", PyList(<<>>))
  ELSE SetKey(activity, "images",
              LinkedImages(search_images(mode, key \o <<" ", "p", "h", "o", "t", "o">>).images))

\* one activity of _attach_activity_images
AttachActivity(activity, mode) ==
  IF ~IsDict(activity) THEN activity
  ELSE AttachKeyed(activity, mode, ActivityKey(Get(activity, "location"), Get(activity, "title")))

AttachDay(day, mode) ==
  IF ~IsDict(day) \/ ~IsList(Get(day, "activities")) THEN day
  ELSE SetKey(day, "activities",
              PyList([i \in 1..Len(Get(day, "activities").items) |->
                        AttachActivity(Get(day, "activities").items[i], mode)]))

\* _attach_activity_images(itinerary): the itinerary after the call
_attach_activity_images(itinerary, mode) ==
  IF ~IsList(Get(itinerary, "days")) THEN itinerary
  ELSE SetKey(itinerary, "days",
              PyList([d \in 1..Len(Get(itinerary, "days").items) |->
                        AttachDay(Get(itinerary, "days").items[d], mode)]))

\* TRUE when some activity is looked up, so that a failing collaborator is reached
AttachLooksUp(itinerary) ==
  /\ IsList(Get(itinerary, "days"))
  /\ \E d \in 1..Len(Get(itinerary, "days").items) :
       /\ IsDict(Get(itinerary, "days").items[d])
       /\ IsList(Get(Get(itinerary, "days").items[d], "activities"))
       /\ \E i \in 1..Len(Get(Get(itinerary, "days").items[d], "activities").items) :
            /\ IsDict(Get(Get(itinerary, "days").items[d], "activities").items[i])
            /\ ActivityKey(Get(Get(Get(itinerary, "days").items[d], "activities").items[i], "location"),
                           Get(Get(Get(itinerary, "days").items[d], "activities").items[i], "title")) # <<>>

\* lines 1166-1168: CITY_IMAGES.get(prefs.destination, [])
CITY_IMAGES(destination) ==
  IF destination = <<"G", "o", "a", ",", " ", "I", "n", "d", "i", "a">> THEN PyList(<<PyStr(<<"goa-1">>), PyStr(<<"goa-2">>)>>)
  ELSE PyList(<<>>)

\* lines 1166-1171
WithCityImages(itinerary, prefs) ==
  SetKey(SetKey(itinerary, "image_urls", CITY_IMAGES(prefs.destination)),
         "themes", PyList([i \in 1..Len(prefs.themes) |-> PyStr(prefs.themes[i])]))

WithNarrationsEmptyOnFailure(itinerary, prefs) ==
  IF NarrationsRaise(itinerary) THEN SetKey(itinerary, "narrations", PyList(<<>>))
  ELSE SetKey(itinerary, "narrations", generate_day_narrations(itinerary, prefs))

\* lines 1172-1175: the exception is logged, the field is not set
WithNarrations(itinerary, prefs) ==
  IF NarrationsRaise(itinerary) THEN itinerary
  ELSE SetKey(itinerary, "narrations", generate_day_narrations(itinerary, prefs))

Tokens(items) == PyList([i \in 1..Len(items) |-> PyStr(<<items[i]>>)])

AxisDoc(axis) ==
  PyDict(<<KV("id", PyStr(<<axis.id>>)), KV("score", PyNum(axis.score)), KV("status", PyStr(<<axis.status>>))>>)

\* the report as a JSON mapping
ReportDoc(report) ==
  PyDict(<<KV("overallScore", PyNum(report.overallScore)), KV("badge", PyStr(<<report.badge>>)),
           KV("axes", PyList([i \in 1..Len(report.axes) |-> AxisDoc(report.axes[i])])),
           KV("alerts", Tokens(report.alerts)), KV("suggestedActions", Tokens(report.suggestedActions))>>)

\* lines 1176-1179: the exception is logged, the field is not set
WithInsights(itinerary, prefs) ==
  IF InsightsRaise(itinerary) THEN itinerary
  ELSE SetKey(itinerary, "insights", ReportDoc(compute_trip_insights(itinerary, prefs)))

\* line 1180
WithMeta(itinerary) ==
  SetKey(itinerary, "meta", PyDict(<<KV("source", PyStr(<<"g", "e", "m", "i", "n", "i">>)), KV("mode", PyStr(<<"s", "t", "r", "u", "c", "t", "u", "r", "e", "d">>))>>))

\* lines 1165-1180 on the itinerary with its images attached
Enriched(itinerary, prefs) ==
  WithMeta(WithInsights(WithNarrations(WithCityImages(itinerary, prefs), prefs), prefs))

\* line 1189: itinerary.get("id") or uuid4().hex; the new identifier is "new"
ItineraryId(itinerary) ==
  IF IsStr(Get(itinerary, "id")) /\ Get(itinerary, "id").s # <<>> THEN Get(itinerary, "id").s[1]
  ELSE "new"

\* line 1190
Identified(itinerary) == SetKey(itinerary, "id", PyStr(<<ItineraryId(itinerary)>>))

\* lines 1191-1195
StoredPayload(itinerary, prefs) == [itinerary |-> itinerary, preferences |-> prefs, updatedAt |-> "now"]

\* lines 1181-1182: _persist_itinerary, whose exception leaves the handler, then the response
ItineraryEnriched(doc) ==
  /\ candidate' = doc
  /\ IF env.store = "down"
     THEN /\ Fail(500, Err("save_itinerary failed", "none", <<>>))
          /\ UNCHANGED storage
     ELSE /\ storage' = save_itinerary(storage, ItineraryId(doc), StoredPayload(doc, Prefs))
          /\ outcome' = [status |-> 200, detail |-> NoError, body |-> doc]
          /\ pc' = "done"

\* lines 1159-1182 on the normalized itinerary
ItineraryNormalized(normal) ==
  IF env.search = "crash" /\ AttachLooksUp(normal)
  THEN /\ Fail(502, Err("search_images failed", "none", <<>>))
       /\ candidate' = normal
       /\ UNCHANGED storage
  ELSE ItineraryEnriched(Identified(Enriched(_attach_activity_images(normal, env.search), Prefs)))

\* after the itinerary loop (lines 1155-1182)
FinishItinerary ==
  /\ pc = "finish" /\ kind = "itinerary"
  /\ IF candidate = PyNone
     THEN /\ Fail(502, IF last_error # NoError THEN last_error
                       ELSE Err("Failed to generate a complete itinerary", "none", <<>>))
          /\ UNCHANGED <<candidate, hist, storage>>
     ELSE /\ hist' = [hist EXCEPT !.normalized = candidate]
          /\ IF NormalizeRaises(candidate)
             THEN /\ Fail(502, Err("TypeError", "none", <<>>))
                  /\ UNCHANGED <<candidate, storage>>
             ELSE ItineraryNormalized(_normalize_itinerary(candidate, Prefs))
  /\ UNCHANGED <<kind, env, script, attempt, calls, raw_text, last_error, fvars, session>>

\* lines 1475-1480: the outcome of _prepare_fashion_results
FashionPreparedTerminal(prepared) ==
  /\ hist' = IF prepared.raised = "none"
             THEN [hist EXCEPT !.parses = @ + 1, !.accepted = attempt + 1]
             ELSE [Failed(hist, prepared.error) EXCEPT
                     !.rejected = IF prepared.raised = "ValueError" THEN attempt + 1 ELSE @]
  /\ IF prepared.raised # "none"
     THEN /\ Fail(502, prepared.error)
          /\ UNCHANGED <<attempt, last_error, candidate>>
     ELSE /\ candidate' = [type |-> "suggestions", results |-> prepared.results]
          /\ pc' = "finish"
          /\ UNCHANGED <<attempt, last_error, outcome>>

FashionPrepared(prepared) ==
  /\ hist' = IF prepared.raised = "none"
             THEN [hist EXCEPT !.parses = @ + 1, !.accepted = attempt + 1]
             ELSE [Failed(hist, prepared.error) EXCEPT
                     !.rejected = IF prepared.raised = "ValueError" THEN attempt + 1 ELSE @]
  /\ IF prepared.raised = "ValueError"
     THEN /\ Continue(prepared.error)
          /\ UNCHANGED <<candidate, outcome>>
     ELSE IF prepared.raised = "Exception"
     THEN /\ Fail(500, prepared.error)
          /\ UNCHANGED <<attempt, last_error, candidate>>
     ELSE /\ candidate' = [type |-> "suggestions", results |-> prepared.results]
          /\ pc' = "finish"
          /\ UNCHANGED <<attempt, last_error, outcome>>

FashionParsed(parsed) ==
  IF parsed.stage = "extract"
  THEN /\ Continue(AttemptErr("Fashion JSON parse failure", 0, parsed.error))
       /\ hist' = Failed(hist, AttemptErr("Fashion JSON parse failure", 0, parsed.error))
       /\ UNCHANGED <<candidate, outcome>>
  ELSE IF parsed.stage = "decode"
  THEN \* _json.loads(cleaned) at line 1471 is in no try of the loop: line 1501
       /\ Fail(500, Err("JSONDecodeError", "none", <<>>))
       /\ hist' = Failed(hist, Err("JSONDecodeError", "none", <<>>))
       /\ UNCHANGED <<attempt, last_error, candidate>>
  ELSE IF ~_is_valid_fashion_payload(parsed.doc)
  THEN /\ Continue(Err("Gemini fashion payload missing required structure or counts", "none", <<>>))
       /\ hist' = Failed(hist, Err("Gemini fashion payload missing required structure or counts", "none", <<>>))
       /\ UNCHANGED <<candidate, outcome>>
  ELSE FashionPrepared(_prepare_fashion_results(env.search, env.city, env.budget, parsed.doc))

\* body of the fashion loop after the generation call (lines 1460-1480)
ParseFashion ==
  /\ pc = "parse" /\ kind = "fashion"
  /\ FashionParsed(ParseText(raw_text))
  /\ UNCHANGED <<kind, env, script, calls, raw_text, fvars, storage, session>>

\* the end of suggest_hotels, suggest_flights and suggest_fashion: the payload is
\* merged into the stored document when an itinerary_id was given, then returned;
\* an exception of the storage call is answered with status 500
ProviderDone(provider, payload) ==
  IF env.itinerary_id # "" /\ env.store = "down"
  THEN /\ Fail(500, Err("update_itinerary_fields failed", "none", <<>>))
       /\ UNCHANGED storage
  ELSE /\ storage' = IF env.itinerary_id # ""
                     THEN update_itinerary_fields(storage, env.itinerary_id, provider, payload)
                     ELSE storage
       /\ outcome' = [status |-> 200, detail |-> NoError, body |-> payload]
       /\ pc' = "done"

\* after the fashion loop (lines 1482-1498)
FinishFashion ==
  /\ pc = "finish" /\ kind = "fashion"
  /\ IF candidate = PyNone
     THEN /\ Fail(502, IF last_error # NoError THEN last_error
                       ELSE Err("Failed to generate fashion recommendations", "none", <<>>))
          /\ UNCHANGED storage
     ELSE ProviderDone("fashion", candidate)
  /\ UNCHANGED <<kind, env, script, attempt, calls, raw_text, last_error, candidate, hist, fvars, session>>

\* float(price): a number, or a string of digits; anything else gives None (0 here)
PriceNumber(v) ==
  IF IsNum(v) THEN v.n ELSE IF IsStr(v) /\ IsDigitStr(Strip(v.s)) THEN DigitsToNat(Strip(v.s)) ELSE 0

\* lines 1255-1277 for one hotel: <<>> when skipped, else the item with its image
HotelKept(item, cap, mode, city) ==
  IF ~(IsStr(Get(item, "name")) /\ Get(item, "name").s # <<>>) THEN <<>>
  ELSE IF cap # 0 /\ PriceNumber(Get(item, "approx_price_in_inr")) > cap THEN <<>>
  ELSE IF LinkedImages(search_images(mode, Get(item, "name").s \o <<" ">> \o city).images).items = <<>>
  THEN <<item>>
  ELSE <<SetKey(item, "image_url",
                LinkedImages(search_images(mode, Get(item, "name").s \o <<" ">> \o city).images).items[1])>>

RECURSIVE HotelsKept(_, _, _, _)
HotelsKept(items, cap, mode, city) ==
  IF items = <<>> THEN <<>>
  ELSE HotelKept(Head(items), cap, mode, city) \o HotelsKept(Tail(items), cap, mode, city)

\* sorted(data, key=approx_price_in_inr or inf): the cheapest first, None last
PriceKey(item) ==
  IF Truthy(Get(item, "approx_price_in_inr")) THEN PriceNumber(Get(item, "approx_price_in_inr")) ELSE 1000000000

RECURSIVE SortedByPrice(_)
SortedByPrice(items) ==
  IF items = <<>> THEN <<>>
  ELSE LET i == CHOOSE k \in 1..Len(items) :
                  /\ \A j \in 1..Len(items) : PriceKey(items[k]) <= PriceKey(items[j])
                  /\ \A j \in 1..(k - 1) : PriceKey(items[j]) > PriceKey(items[k])
       IN <<items[i]>> \o SortedByPrice(SubSeq(items, 1, i - 1) \o SubSeq(items, i + 1, Len(items)))

FirstN(items, n) == SubSeq(items, 1, IF Len(items) < n THEN Len(items) ELSE n)

\* lines 1253-1279
HotelResults(data, cap, mode, city) ==
  IF HotelsKept(data, cap, mode, city) = <<>> /\ data # <<>> THEN FirstN(SortedByPrice(data), 4)
  ELSE HotelsKept(data, cap, mode, city)

\* lines 1361-1373
FlightKept(option, budget) ==
  IF ~IsDict(option) THEN <<>>
  ELSE IF budget > 0 /\ PriceNumber(Get(option, "price_in_inr")) > budget THEN <<>>
  ELSE <<option>>

RECURSIVE FlightsKept(_, _)
FlightsKept(items, budget) ==
  IF items = <<>> THEN <<>> ELSE FlightKept(Head(items), budget) \o FlightsKept(Tail(items), budget)

FlightResults(data, budget) ==
  IF FlightsKept(data, budget) = <<>> /\ data # <<>> THEN FirstN(data, 3) ELSE FlightsKept(data, budget)

\* "for item in data" on a value that is no list of mappings, and the lookup of
\* an image when the collaborator raises something else than HTTPException
HotelsRaise(data, cap, mode) ==
  \/ data.type \in {"none", "num"}
  \/ IsStr(data) /\ data.s # <<>>
  \/ IsDict(data) /\ data.kv # <<>>
  \/ IsList(data) /\ \E i \in 1..Len(data.items) : ~IsDict(data.items[i])
  \/ IsList(data) /\ mode = "crash" /\ HotelsKept(data.items, cap, "hits", <<>>) # <<>>

FlightsRaise(data) ==
  \/ IsNum(data) /\ data.n # 0
  \/ IsDict(data) /\ data.kv # <<>>

ProviderRaises(provider, data) ==
  IF provider = "hotels" THEN HotelsRaise(data, env.budget, env.search) ELSE FlightsRaise(data)

\* the payload of lines 1280-1288 and 1381-1391
ProviderPayload(provider, data) ==
  [type |-> provider,
   results |-> IF provider = "hotels"
               THEN HotelResults(OrEmptyList(data), env.budget, env.search, env.city)
               ELSE FlightResults(OrEmptyList(data), env.budget)]

ProviderParsed(parsed) ==
  IF parsed.stage # "ok"
  THEN /\ Fail(500, Err(parsed.error, "none", <<>>))
       /\ hist' = Failed(hist, Err(parsed.error, "none", <<>>))
       /\ UNCHANGED <<candidate, storage>>
  ELSE IF ProviderRaises(kind, parsed.doc)
  THEN /\ Fail(500, Err("TypeError", "none", <<>>))
       /\ hist' = Failed(hist, Err("TypeError", "none", <<>>))
       /\ UNCHANGED <<candidate, storage>>
  ELSE /\ candidate' = ProviderPayload(kind, parsed.doc)
       /\ hist' = [hist EXCEPT !.parses = @ + 1, !.accepted = attempt + 1]
       /\ ProviderDone(kind, ProviderPayload(kind, parsed.doc))

\* suggest_hotels (lines 1247-1298) and suggest_flights (lines 1354-1398) after
\* the generation call
SuggestProvider ==
  /\ pc = "parse" /\ kind \in {"hotels", "flights"}
  /\ ProviderParsed(ParseText(raw_text))
  /\ UNCHANGED <<kind, env, script, attempt, calls, raw_text, last_error, fvars, session>>

Next ==
  Generate \/ ParseItinerary \/ FinishItinerary \/ ParseFashion \/ FinishFashion \/ SuggestProvider
Spec == Init /\ [][Next]_vars

\* ------------------------------------------------------------------------
\* extract_json_object applied to bounded inputs
\* ------------------------------------------------------------------------
NoiseChars == {"{", "}", "\"", "x"}
TextChars == {"{", "}", "\"", "\\", "x"}

\* Well-formed JSON objects: empty, a closing brace inside a string, a nested
\* object, an escaped quote followed by a brace inside a string, an escaped
\* backslash right before the closing quote.
JsonObjects ==
  { <<"{", "}">>,
    <<"{", "\"", "a", "\"", ":", "\"", "}", "\"", "}">>,
    <<"{", "\"", "a", "\"", ":", "{", "\"", "b", "\"", ":", "1", "}", "}">>,
    <<"{", "\"", "a", "\"", ":", "\"", "\\", "\"", "}", "\"", "}">>,
    <<"{", "\"", "a", "\"", ":", "\"", "\\", "\\", "\"", "}">> }

OpeningFences == {<<>>, Fence, FenceJson \o <<"\n">>, Fence \o <<"J", "S", "O", "N", "\n">>}
ClosingFences == {<<>>, <<"\n">> \o Fence}

Embedded(prefix, opening, json, closing, suffix) ==
  [op |-> "embedded", prefix |-> prefix, opening |-> opening, json |-> json,
   closing |-> closing, suffix |-> suffix,
   text |-> prefix \o opening \o json \o closing \o suffix]

EmbeddedInputs ==
  { Embedded(prefix, opening, json, closing, suffix) :
      prefix \in SeqsUpTo(NoiseChars, MaxNoise), opening \in OpeningFences,
      json \in JsonObjects, closing \in ClosingFences,
      suffix \in SeqsUpTo(NoiseChars, MaxNoise) }

ArbitraryInputs ==
  { [NoInput EXCEPT !.op = "arbitrary", !.text = text] : text \in SeqsUpTo(TextChars, MaxText) }

Pending == ExtractFail("pending")
Applied == fn_in.op # "none" /\ fn_out # Pending

\* extract_json_object on prefix noise + optional fence + JSON object + suffix noise
ExtractEmbedded ==
  /\ fn_in.op = "embedded" /\ fn_out = Pending
  /\ fn_out' = extract_json_object(fn_in.text)
  /\ UNCHANGED <<fn_in, mvars>>

\* extract_json_object on an arbitrary bounded text
ExtractArbitrary ==
  /\ fn_in.op = "arbitrary" /\ fn_out = Pending
  /\ fn_out' = extract_json_object(fn_in.text)
  /\ UNCHANGED <<fn_in, mvars>>

ExtractInit == MIdle /\ fn_in \in (EmbeddedInputs \cup ArbitraryInputs) /\ fn_out = Pending
ExtractNext == ExtractEmbedded \/ ExtractArbitrary
SpecExtract == ExtractInit /\ [][ExtractNext]_vars

\* ------------------------------------------------------------------------
\* Lexical structure of a text, stated without the scanning loop
\* ------------------------------------------------------------------------
\* number of consecutive backslashes ending at position i
RECURSIVE BackslashRun(_, _)
BackslashRun(t, i) ==
  IF i >= 1 /\ t[i] = "\\" THEN 1 + BackslashRun(t, i - 1) ELSE 0

\* TRUE when position i lies inside a string literal (or opens one)
RECURSIVE InsideString(_, _)
InsideString(t, i) ==
  IF i = 0 THEN FALSE
  ELSE LET before == InsideString(t, i - 1)
       IN IF t[i] = "\"" /\ ~(before /\ BackslashRun(t, i - 1) % 2 = 1)
          THEN ~before ELSE before

\* nesting depth after position i, braces inside string literals not counted
RECURSIVE DepthAt(_, _)
DepthAt(t, i) ==
  IF i = 0 THEN 0
  ELSE DepthAt(t, i - 1)
       + (IF InsideString(t, i) THEN 0
          ELSE IF t[i] = "{" THEN 1 ELSE IF t[i] = "}" THEN -1 ELSE 0)

BalancedObject(t) ==
  /\ Len(t) >= 2
  /\ t[1] = "{"
  /\ DepthAt(t, Len(t)) = 0
  /\ \A i \in 1..(Len(t) - 1) : DepthAt(t, i) > 0

BracesBalanced(t) ==
  /\ DepthAt(t, Len(t)) = 0
  /\ \A i \in 1..Len(t) : DepthAt(t, i) >= 0

\* the depth never returns to zero after the first opening brace
NeverCloses(t) ==
  LET start == FindBrace(t)
      rest == SubSeq(t, start, Len(t))
  IN start = 0 \/ \A i \in 1..Len(rest) : DepthAt(rest, i) > 0

\* (C7) original statement: for every text made of prefix noise, an optional
\* code fence, one well-formed JSON object and suffix noise, whatever the noise
\* contains, extract_json_object returns exactly the embedded object.
C7_Original ==
  (fn_in.op = "embedded" /\ Applied) => fn_out = ExtractOk(fn_in.json)

\* (C7) amended: when the prefix noise contains no opening brace (it may hold
\* closing braces and double quotes, the suffix may hold anything),
\* extract_json_object returns exactly the embedded JSON object.
C7_ExtractReturnsEmbedded ==
  (fn_in.op = "embedded" /\ Applied /\ \A i \in 1..Len(fn_in.prefix) : fn_in.prefix[i] # "{")
     => fn_out = ExtractOk(fn_in.json)

C7_Witness ==
  /\ fn_in.op = "embedded"
  /\ fn_in.prefix = <<"}", "\"">>
  /\ fn_in.opening = FenceJson \o <<"\n">>
  /\ fn_in.suffix = <<"{", "\"">>
  /\ \E i \in 1..Len(fn_in.json) : fn_in.json[i] = "\\"
  /\ fn_out = ExtractOk(fn_in.json)

\* (C8) original statement: every text whose braces are unbalanced makes
\* extract_json_object fail, and a returned substring is a balanced object.
C8_Original ==
  /\ (fn_in.op = "arbitrary" /\ Applied /\ ~BracesBalanced(fn_in.text)) => ~fn_out.ok
  /\ (fn_in.op \in {"embedded", "arbitrary"} /\ fn_out.ok) => BalancedObject(fn_out.text)

\* (C8) amended: extract_json_object fails when the text has no opening brace
\* or the depth never returns to zero after the first opening brace; whenever
\* it returns a substring, that substring starts at a brace, its depth outside
\* string literals is positive before its last character and zero at it.
C8_ExtractBalanced ==
  /\ (fn_in.op = "arbitrary" /\ Applied /\ NeverCloses(Strip(fn_in.text))) => ~fn_out.ok
  /\ (fn_in.op \in {"embedded", "arbitrary"} /\ fn_out.ok) => BalancedObject(fn_out.text)

C8_Witness ==
  /\ fn_in.op = "arbitrary"
  /\ fn_in.text = <<"{", "\"", "}", "\"", "}">>
  /\ fn_out = ExtractOk(fn_in.text)

C8_WitnessFail ==
  /\ fn_in.op = "arbitrary"
  /\ fn_in.text = <<"{", "{", "}">>
  /\ ~fn_out.ok

\* ------------------------------------------------------------------------
\* _is_valid_fashion_payload applied to the payload variants
\* ------------------------------------------------------------------------
SchemaInputs ==
  { [NoInput EXCEPT !.op = "schema", !.variant = m, !.payload = VariantPayload(m)] : m \in Variants }

\* _is_valid_fashion_payload on one payload
CheckFashionPayload ==
  /\ fn_in.op = "schema" /\ fn_out = Pending
  /\ fn_out' = IF _is_valid_fashion_payload(fn_in.payload)
               THEN ExtractOk(<<>>) ELSE ExtractFail("invalid")
  /\ UNCHANGED <<fn_in, mvars>>

SchemaInit == MIdle /\ fn_in \in SchemaInputs /\ fn_out = Pending
SchemaNext == CheckFashionPayload
SpecSchema == SchemaInit /\ [][SchemaNext]_vars

\* the shape the recommendation kind requires, extra keys tolerated
FourByFour(payload, exact) ==
  /\ payload.type = "dict"
  /\ IF exact THEN Keys(payload) = CategorySet ELSE CategorySet \subseteq Keys(payload)
  /\ \A c \in CategorySet :
       LET v == Get(payload, c)
       IN /\ v.type = "list"
          /\ Len(v.items) = 4
          /\ \A i \in 1..4 :
               LET e == v.items[i]
               IN /\ e.type = "dict"
                  /\ \A f \in required_fields : \E j \in 1..Len(e.kv) : e.kv[j].k = f
                  /\ \A f \in StringFields :
                       /\ Get(e, f).type = "str"
                       /\ \E j \in 1..Len(Get(e, f).s) : Get(e, f).s[j] \notin Whitespace

\* the variants that leave the payload acceptable
HarmlessVariant(m) ==
  \/ m.kind \in {"base", "extra_key", "extra_field", "price_string", "price_blank",
                 "tags_not_list", "tags_empty"}
  \/ m.kind \in {"blank_field", "empty_field", "number_field", "none_field"}
       /\ m.field \notin StringFields

\* (C10) original statement: the check passes exactly when the candidate is a
\* mapping whose keys are exactly the four categories, each a sequence of
\* exactly four mappings holding the six required keys with non-blank strings.
C10_Original ==
  (fn_in.op = "schema" /\ Applied) => (fn_out.ok <=> FourByFour(fn_in.payload, TRUE))

\* (C10) amended: the check passes exactly when the candidate is a mapping
\* that contains the four categories (other keys are ignored), each a sequence
\* of exactly four mappings holding the six required keys, with title,
\* description, shopping_keywords and weather_note non-blank strings.
C10_SchemaExact ==
  (fn_in.op = "schema" /\ Applied) =>
     /\ fn_out.ok <=> FourByFour(fn_in.payload, FALSE)
     /\ fn_out.ok <=> HarmlessVariant(fn_in.variant)

C10_Witness ==
  /\ fn_in.op = "schema" /\ Applied
  /\ fn_in.variant.kind = "extra_key"
  /\ fn_out.ok

C10_WitnessReject ==
  /\ fn_in.op = "schema" /\ Applied
  /\ fn_in.variant.kind = "drop_field" /\ fn_in.variant.field = "price_in_inr"
  /\ ~fn_out.ok

\* ------------------------------------------------------------------------
\* Properties of the retry loops
\* ------------------------------------------------------------------------
Requests == {"itinerary", "fashion"}
Done == kind \in Requests /\ pc = "done"

\* (C1) The number of generation calls of one request never exceeds the
\* attempt limit (MAX_GEMINI_ATTEMPTS for the itinerary, 3 for the
\* recommendations); a generation call starts only after the parse/validate
\* step of every previous attempt has finished; no generation call is made
\* after an attempt has been accepted.
C1_BoundedSequentialAttempts ==
  kind \in Requests =>
    /\ Len(calls) <= (IF kind = "itinerary" THEN MAX_GEMINI_ATTEMPTS ELSE 3)
    /\ hist.parses \in {Len(calls) - 1, Len(calls)}
    /\ pc = "generate" => hist.parses = Len(calls)
    /\ pc = "parse" => hist.parses = Len(calls) - 1
    /\ hist.accepted # 0 => (pc \in {"finish", "done"} /\ Len(calls) = hist.accepted)

C1_Witness ==
  /\ kind = "fashion" /\ pc = "done"
  /\ Len(calls) = 3 /\ hist.parses = 3 /\ hist.accepted = 3
  /\ outcome.status = 200

\* (C2) Itinerary request: when attempt 1 returns an unterminated JSON object
\* and the next generation call would return a schema-valid object, a second
\* attempt is made with the stricter instruction and accepted: 2 attempts are
\* consumed and the response holds attempt 2's content.
C2_RetryAfterUnterminated ==
  (/\ kind = "itinerary" /\ pc = "done"
   /\ env.search = "hits"
   /\ script[1] = Answer(<<"{", "full">>)
   /\ script[2] = Answer(Obj("full")))
  => /\ Len(calls) = 2
     /\ calls[2].instruction = "strict"
     /\ outcome.status = 200
     /\ Get(outcome.body, "totalEstimatedCost") = PyNum(900)

\* the text of an attempt fails by extraction error, JSON decode error or schema failure
FailsParseOrSchema(text) ==
  \/ ParseText(text).stage # "ok"
  \/ ~_is_valid_fashion_payload(ParseText(text).doc)

\* (C3) Recommendation request: whenever an attempt fails by extraction error,
\* JSON decode error (also on the text the extractor returned) or schema
\* failure while fewer than 3 attempts have been made, a failure reason is
\* recorded and another generation attempt follows; the request does not end
\* and no raw error reaches the caller.
C3_FailureIsRetried ==
  [][(kind = "fashion" /\ pc = "parse" /\ attempt + 1 < 3 /\ FailsParseOrSchema(raw_text))
       => (pc' = "generate" /\ last_error' # NoError /\ attempt' = attempt + 1
           /\ outcome' = NoOutcome)]_vars

\* (C4) When every attempt of a request fails (each attempt made was answered
\* and failed in its parse/validate step), the request ends with an error
\* outcome whose detail is the failure reason recorded by the last failed
\* attempt, and no document (default, fallback or partial) is returned.
C4_ExhaustionIsTerminal ==
  (Done /\ hist.accepted = 0 /\ hist.parses = Len(calls))
  => /\ outcome.status = 502
     /\ outcome.body = PyNone
     /\ last_error # NoError
     /\ outcome.detail = last_error
     /\ last_error = hist.reasons[Len(hist.reasons)]

\* (C5) In both loops the first generation call uses the initial instruction
\* and every later call of the request the stricter variant.
C5_InstructionSchedule ==
  kind \in Requests =>
    \A i \in 1..Len(calls) :
      /\ calls[i].attempt = i - 1
      /\ calls[i].instruction = (IF i = 1 THEN "base" ELSE "strict")

C5_Witness ==
  /\ kind = "fashion" /\ Len(calls) = 3
  /\ calls[1].instruction = "base"
  /\ calls[2].instruction = "strict" /\ calls[3].instruction = "strict"

\* (C6) original statement: a rejection by the recommendation validator is
\* terminal for the request: no further generation attempt is made.
C6_Original ==
  (kind = "fashion" /\ hist.rejected # 0)
  => (pc \in {"finish", "done"} /\ Len(calls) = hist.rejected)

ValidatorMessages ==
  {"Incomplete looks", "Invalid entry", "Missing fields", "Missing price", "Exceeds budget",
   "No imagery", "Duplicate look"}

\* (C6) amended: a rejection by the recommendation validator is a retry
\* signal: its message is recorded as last_error and, when fewer than 3
\* attempts have been made, another generation attempt follows; only the
\* rejection of the third attempt ends the request, with status 502, that
\* message as detail and no recommendations.
C6_RejectionIsRetried ==
  /\ [][(kind = "fashion" /\ hist'.rejected # hist.rejected)
          => /\ last_error'.msg \in ValidatorMessages
             /\ last_error' = hist'.reasons[Len(hist'.reasons)]
             /\ outcome' = NoOutcome
             /\ attempt' = attempt + 1
             /\ pc' = (IF hist'.rejected < 3 THEN "generate" ELSE "finish")]_vars
  /\ []((kind = "fashion" /\ pc = "done" /\ hist.rejected = 3)
          => (outcome.status = 502 /\ outcome.detail = last_error /\ outcome.body = PyNone))

C6_Witness ==
  /\ kind = "fashion" /\ pc = "done"
  /\ hist.rejected = 3 /\ Len(calls) = 3
  /\ outcome.status = 502 /\ outcome.detail.msg = "Duplicate look"

C6_WitnessRetry ==
  /\ kind = "fashion" /\ hist.rejected = 1 /\ Len(calls) = 2
  /\ calls[2].instruction = "strict"

\* the shape the itinerary kind requires of a candidate
ItineraryShape(doc) ==
  /\ doc.type = "dict"
  /\ Get(doc, "days").type = "list"
  /\ Get(doc, "days").items # <<>>
  /\ \A d \in 1..Len(Get(doc, "days").items) :
       /\ Get(doc, "days").items[d].type = "dict"
       /\ {"summary", "activities"} \subseteq Keys(Get(doc, "days").items[d])

\* (C9) Itinerary request: a parsed candidate is handed to the normalizer (and
\* returned) only if it is a mapping with a non-empty days sequence of
\* mappings that each hold summary and activities; any other candidate is a
\* failed attempt.
C9_OnlyShapedCandidates ==
  kind = "itinerary" =>
    /\ hist.normalized # PyNone => ItineraryShape(hist.normalized)
    /\ hist.accepted # 0 => ItineraryShape(candidate) \/ pc = "done"
    /\ outcome.status = 200 => ItineraryShape(hist.normalized)

\* ------------------------------------------------------------------------
\* _normalize_itinerary applied twice to a family of parsed itineraries
\* ------------------------------------------------------------------------
MaxActivities == 2   \* longest list of varied activities in a day of the family

Times == { PyStr(<<" ", "1", "0", ":", "3", "0", " ">>), PyStr(<<"m", "o", "r", "n">>),
           PyStr(<<"2", "5", ":", "9", "9">>), PyStr(<<" ">>), PyNum(9) }

Costs == { PyStr(<<" ", "5", "0", "0", " ">>), PyStr(<<"f", "r", "e", "e">>), PyNone, PyStr(<<>>) }

ActivityVariants ==
  {Activity1, PyDict(<<>>), PyStr(<<"x">>), SetKey(Activity1, "title", PyStr(<<" ">>)),
   SetKey(Activity1, "images", PyList(<<>>))}
  \cup {SetKey(Activity1, "time", t) : t \in Times}
  \cup {SetKey(Activity1, "cost", c) : c \in Costs}

\* a day of eight activities without a time: the synthesized times reach the clamp
LongDay == PyDict(<<KV("activities", PyList([i \in 1..8 |-> PyDict(<<>>)]))>>)

DayVariants ==
  {PyNum(1), PyDict(<<>>), LongDay,
   PyDict(<<KV("summary", PyStr(<<"s">>)), KV("activities", PyStr(<<"x">>))>>)}
  \cup {PyDict(<<KV("summary", PyStr(<<"s">>)), KV("activities", PyList(acts))>>) :
          acts \in SeqsUpTo(ActivityVariants, MaxActivities)}

DaysVariants ==
  {PyNone, PyStr(<<"x">>), PyList(<<>>)}
  \cup {PyList(<<d>>) : d \in DayVariants}
  \cup {PyList(<<PyDict(<<>>), d>>) : d \in DayVariants}

Totals == {PyNone, PyNum(900), PyStr(<<"9">>)}

Breakdowns ==
  {PyNone, PyNum(0), PyNum(5), PyStr(<<"a", "b">>),
   PyList(<<PyDict(<<KV("amount", PyNum(400))>>), PyDict(<<KV("amount", PyStr(<<"x">>))>>),
            PyNum(7), PyDict(<<KV("amount", PyNum(250))>>)>>)}

\* a parsed JSON mapping; PyNone for a field leaves the key out
ItineraryOf(days, total, breakdown) ==
  LET With(d, k, v) == IF v = PyNone THEN d ELSE SetKey(d, k, v)
  IN With(With(With(PyDict(<<>>), "days", days), "totalEstimatedCost", total),
          "costBreakdown", breakdown)

NormalizeInputs ==
  { [NoInput EXCEPT !.op = "normalize", !.start = st, !.payload = ItineraryOf(d, PyNone, PyNone)] :
      d \in DaysVariants, st \in {0, 5} }
  \cup
  { [NoInput EXCEPT !.op = "normalize", !.start = 5, !.payload = ItineraryOf(d, t, b)] :
      d \in {PyNone, PyStr(<<"x">>), PyList(<<>>), PyList(<<LongDay>>)},
      t \in Totals, b \in Breakdowns }

\* the result of the passes made so far: the document after the first pass,
\* the document now, and the exception that ended the latest pass (if any)
Normalized(passes, first, doc, error) ==
  [ok |-> error = "none", text |-> <<>>, error |-> error,
   passes |-> passes, first |-> first, doc |-> doc]

\* one call _normalize_itinerary(doc, prefs) on top of the passes made so far
NormalizePass(passes, first, doc, prefs) ==
  IF NormalizeRaises(doc) THEN Normalized(passes + 1, first, doc, "TypeError")
  ELSE Normalized(passes + 1,
                  IF passes = 0 THEN _normalize_itinerary(doc, prefs) ELSE first,
                  _normalize_itinerary(doc, prefs), "none")

\* first call of _normalize_itinerary on the parsed document
NormalizeOnce ==
  /\ fn_in.op = "normalize" /\ fn_out = Pending
  /\ fn_out' = NormalizePass(0, PyNone, fn_in.payload, [Prefs EXCEPT !.startDate = fn_in.start])
  /\ UNCHANGED <<fn_in, mvars>>

\* second call, on the document the first call left
NormalizeAgain ==
  /\ fn_in.op = "normalize" /\ fn_out # Pending
  /\ fn_out.ok /\ fn_out.passes = 1
  /\ fn_out' = NormalizePass(1, fn_out.first, fn_out.doc, [Prefs EXCEPT !.startDate = fn_in.start])
  /\ UNCHANGED <<fn_in, mvars>>

NormalizeInit == MIdle /\ fn_in \in NormalizeInputs /\ fn_out = Pending
NormalizeNext == NormalizeOnce \/ NormalizeAgain
SpecNormalize == NormalizeInit /\ [][NormalizeNext]_vars

\* ------------------------------------------------------------------------
\* Properties of the normalizer
\* ------------------------------------------------------------------------
NormalizedOnce == fn_in.op = "normalize" /\ Applied /\ fn_out.passes = 1 /\ fn_out.ok
DaysIn == IF IsList(Get(fn_in.payload, "days")) THEN Get(fn_in.payload, "days").items ELSE <<>>
DaysOut == Get(fn_out.doc, "days").items
ActivitiesOf(day) ==
  IF IsDict(day) /\ IsList(Get(day, "activities")) THEN Get(day, "activities").items ELSE <<>>

\* (C11) For every parsed JSON mapping, whatever the types and values of days,
\* activities, cost, totalEstimatedCost and costBreakdown,
\* _normalize_itinerary completes without raising.
C11_NormalizerNeverRaises ==
  (fn_in.op = "normalize" /\ Applied) => fn_out.ok

\* (C12) Normalization is idempotent: a second _normalize_itinerary on the
\* result of the first completes and leaves every field unchanged.
C12_NormalizeIdempotent ==
  (fn_in.op = "normalize" /\ Applied /\ fn_out.passes = 2)
  => (fn_out.ok /\ fn_out.doc = fn_out.first)

\* (C13) original statement: after normalization each day has at least one
\* activity and exactly as many activities as before.
C13_Original ==
  NormalizedOnce =>
    \A d \in 1..Len(DaysIn) :
      IsDict(DaysIn[d]) =>
        /\ Len(ActivitiesOf(DaysOut[d])) >= 1
        /\ Len(ActivitiesOf(DaysOut[d])) = Len(ActivitiesOf(DaysIn[d]))

\* (C13) amended: normalization keeps the number of days, and each day that is
\* a mapping ends with an activities sequence of exactly the length it had
\* before (length 0 when activities was not a sequence): no activity is
\* dropped or added, and a day that had none keeps none. A day that is not a
\* mapping is left as it is.
C13_ActivityCountKept ==
  NormalizedOnce =>
    /\ Len(DaysOut) = Len(DaysIn)
    /\ \A d \in 1..Len(DaysIn) :
         IF IsDict(DaysIn[d])
         THEN /\ IsList(Get(DaysOut[d], "activities"))
              /\ Len(ActivitiesOf(DaysOut[d])) = Len(ActivitiesOf(DaysIn[d]))
              /\ \A i \in 1..Len(ActivitiesOf(DaysOut[d])) : IsDict(ActivitiesOf(DaysOut[d])[i])
         ELSE DaysOut[d] = DaysIn[d]

C13_Witness ==
  /\ NormalizedOnce
  /\ \E d \in 1..Len(DaysIn) :
       /\ Len(ActivitiesOf(DaysIn[d])) = 2
       /\ ~IsDict(ActivitiesOf(DaysIn[d])[1])
       /\ Len(ActivitiesOf(DaysOut[d])) = 2

\* HH:MM with HH in 00..23 and MM in 00..59
WellFormedTime(v) ==
  /\ IsStr(v) /\ Len(v.s) = 5 /\ v.s[3] = ":"
  /\ \A i \in {1, 2, 4, 5} : v.s[i] \in DigitChars
  /\ DigitsToNat(SubSeq(v.s, 1, 2)) <= 23
  /\ DigitsToNat(SubSeq(v.s, 4, 5)) <= 59

\* (C14) original statement: after normalization every activity's time is a
\* well-formed HH:MM string, synthesized or supplied.
C14_Original ==
  NormalizedOnce =>
    \A d \in 1..Len(DaysOut) : \A i \in 1..Len(ActivitiesOf(DaysOut[d])) :
      WellFormedTime(Get(ActivitiesOf(DaysOut[d])[i], "time"))

\* (C14) amended: after normalization the time of an activity whose time was
\* absent, blank or not a string is the synthesized one, a well-formed HH:00
\* with HH = 9 + 2 * activity index, at most 22; a time supplied by the model
\* as a non-blank string is kept as supplied, trimmed only, whether or not it
\* is a well-formed time.
C14_TimeSynthesizedOrTrimmed ==
  NormalizedOnce =>
    \A d \in 1..Len(DaysOut) : \A i \in 1..Len(ActivitiesOf(DaysOut[d])) :
      IF IsDict(ActivitiesOf(DaysIn[d])[i]) /\ NonBlankStr(Get(ActivitiesOf(DaysIn[d])[i], "time"))
      THEN Get(ActivitiesOf(DaysOut[d])[i], "time")
             = PyStr(Strip(Get(ActivitiesOf(DaysIn[d])[i], "time").s))
      ELSE /\ WellFormedTime(Get(ActivitiesOf(DaysOut[d])[i], "time"))
           /\ SubSeq(Get(ActivitiesOf(DaysOut[d])[i], "time").s, 4, 5) = <<"0", "0">>
           /\ DigitsToNat(SubSeq(Get(ActivitiesOf(DaysOut[d])[i], "time").s, 1, 2))
                = (IF 9 + 2 * (i - 1) > 22 THEN 22 ELSE 9 + 2 * (i - 1))

C14_Witness ==
  /\ NormalizedOnce
  /\ DaysIn = <<LongDay>>
  /\ Get(ActivitiesOf(DaysOut[1])[1], "time") = PyStr(<<"0", "9", ":", "0", "0">>)
  /\ Get(ActivitiesOf(DaysOut[1])[8], "time") = PyStr(<<"2", "2", ":", "0", "0">>)

\* ------------------------------------------------------------------------
\* The itinerary returned by the request
\* ------------------------------------------------------------------------
\* _days_between_inclusive(a, b) on dates of one month (day of the month)
_days_between_inclusive(a, b) == IF (b - a) + 1 > 1 THEN (b - a) + 1 ELSE 1

\* (C15) Every itinerary returned by the itinerary request has as many days
\* as the inclusive day count between startDate and endDate, and 3 or 4
\* activities in every day.
C15_ReturnedItineraryInvariant ==
  (kind = "itinerary" /\ outcome.status = 200)
  => /\ IsList(Get(outcome.body, "days"))
     /\ Len(Get(outcome.body, "days").items) = _days_between_inclusive(Prefs.startDate, Prefs.endDate)
     /\ \A d \in 1..Len(Get(outcome.body, "days").items) :
          Len(ActivitiesOf(Get(outcome.body, "days").items[d])) \in {3, 4}

\* ------------------------------------------------------------------------
\* _prepare_fashion_results applied to a family of payloads
\* ------------------------------------------------------------------------
Rupee == "rupee"   \* the rupee sign, one character

PriceNames == {"rupee", "rs_dot", "inr", "decimal", "num4500", "dot_only", "two_dots",
               "words", "none"}

\* the price values of the family
PriceOf(name) ==
  CASE name = "rupee" -> PyStr(<<Rupee, "2", ",", "5", "0", "0">>)
    [] name = "rs_dot" -> PyStr(<<"R", "s", ".", " ", "2", ",", "5", "0", "0">>)
    [] name = "inr" -> PyStr(<<"I", "N", "R", " ", "2", "5", "0", "0">>)
    [] name = "decimal" -> PyStr(<<"2", "5", "0", "0", ".", "7", "5">>)
    [] name = "num4500" -> PyNum(4500)
    [] name = "dot_only" -> PyStr(<<".">>)
    [] name = "two_dots" -> PyStr(<<"1", ".", "2", ".", "3">>)
    [] name = "words" -> PyStr(<<"a", "b", "c">>)
    [] OTHER -> PyNone

DupFields == {"same", "description", "weather_note", "style_tags", "price", "case",
              "blank_description", "pricey", "no_price"}

\* entry i of category c with the title and shopping_keywords of entry i - 1
\* and one other field changed
DupEntry(c, i, field) ==
  LET twin == SetKey(SetKey(BaseEntry(c, i), "title", Get(BaseEntry(c, i - 1), "title")),
                     "shopping_keywords", Get(BaseEntry(c, i - 1), "shopping_keywords"))
  IN CASE field = "same" -> BaseEntry(c, i - 1)
       [] field = "description" -> twin
       [] field = "weather_note" -> SetKey(twin, "weather_note", PyStr(<<"w", "e", "t">>))
       [] field = "style_tags" -> SetKey(twin, "style_tags", PyList(<<>>))
       [] field = "price" -> SetKey(twin, "price_in_inr", PyNum(500))
       [] field = "case" ->
            SetKey(twin, "title",
                   PyStr(<<" ", CASE c = "men" -> "M" [] c = "women" -> "W" [] c = "kids" -> "K"
                                  [] OTHER -> "A", Digit(i - 1), " ">>))
       [] field = "blank_description" -> SetKey(twin, "description", PyStr(<<" ">>))
       [] field = "pricey" -> SetKey(twin, "price_in_inr", PyNum(9000))
       [] OTHER -> SetKey(twin, "price_in_inr", PyStr(<<"a", "b", "c">>))

DoubleFaults == {"fields_price", "fields_budget", "price_keywords"}

\* entry i of category c failing two checks at once
DoubleEntry(c, i, field) ==
  CASE field = "fields_price" ->
         SetKey(SetKey(BaseEntry(c, i), "weather_note", PyStr(<<" ">>)), "price_in_inr", PyNone)
    [] field = "fields_budget" ->
         SetKey(SetKey(BaseEntry(c, i), "description", PyStr(<<>>)), "price_in_inr", PyNum(9000))
    [] OTHER ->
         SetKey(SetKey(BaseEntry(c, i), "price_in_inr", PyStr(<<"a", "b", "c">>)),
                "shopping_keywords", PyStr(<<"k", "9">>))

PrepareVariants ==
  {m \in Variants : m.kind # "not_dict"}
  \cup {[kind |-> "price", cat |-> c, idx |-> i, field |-> f] :
          c \in CategorySet, i \in 1..4, f \in PriceNames}
  \cup {[kind |-> "dup", cat |-> c, idx |-> i, field |-> f] :
          c \in CategorySet, i \in 2..4, f \in DupFields}
  \cup {[kind |-> "same_title", cat |-> c, idx |-> i, field |-> "title"] :
          c \in CategorySet, i \in 2..4}
  \cup {[kind |-> "double", cat |-> c, idx |-> i, field |-> f] :
          c \in CategorySet, i \in {1, 3}, f \in DoubleFaults}

PreparePayload(m) ==
  CASE m.kind = "price" ->
         WithEntry(BasePayload, m.cat, m.idx,
                   SetKey(BaseEntry(m.cat, m.idx), "price_in_inr", PriceOf(m.field)))
    [] m.kind = "dup" -> WithEntry(BasePayload, m.cat, m.idx, DupEntry(m.cat, m.idx, m.field))
    [] m.kind = "double" -> WithEntry(BasePayload, m.cat, m.idx, DoubleEntry(m.cat, m.idx, m.field))
    [] m.kind = "same_title" ->
         WithEntry(BasePayload, m.cat, m.idx,
                   SetKey(BaseEntry(m.cat, m.idx), "title", Get(BaseEntry(m.cat, m.idx - 1), "title")))
    [] OTHER -> VariantPayload(m)

Budgets == {0, 4000}

PrepareInputs ==
  { [NoInput EXCEPT !.op = "prepare", !.variant = m, !.payload = PreparePayload(m),
                    !.mode = mode, !.budget = budget] :
      m \in PrepareVariants, mode \in SearchModes, budget \in Budgets }

\* what a call of _prepare_fashion_results gave: the mapping returned, or the
\* exception raised
Prepared(r) ==
  [ok |-> r.raised = "none", text |-> <<>>, error |-> r.error.msg,
   raised |-> r.raised, cat |-> r.error.cat, results |-> r.results, lookups |-> r.lookups]

\* _prepare_fashion_results(city, budget, payload) with the image lookup behaving as mode
PrepareFashion ==
  /\ fn_in.op = "prepare" /\ fn_out = Pending
  /\ fn_out' = Prepared(_prepare_fashion_results(fn_in.mode, <<"G", "o", "a">>, fn_in.budget,
                                                 fn_in.payload))
  /\ UNCHANGED <<fn_in, mvars>>

PrepareInit == MIdle /\ fn_in \in PrepareInputs /\ fn_out = Pending
PrepareNext == PrepareFashion
SpecPrepare == PrepareInit /\ [][PrepareNext]_vars

\* ------------------------------------------------------------------------
\* Properties of the recommendation validator
\* ------------------------------------------------------------------------
PreparedCall == fn_in.op = "prepare" /\ Applied

\* the items returned for category c
ItemsOf(results, c) == results[CHOOSE r \in 1..Len(results) : results[r].k = c].v

\* (C16) Every mapping returned by _prepare_fashion_results satisfies: within
\* each category no two items share the pair (lower-cased title, lower-cased
\* shopping_keywords); with a budget ceiling above 0 every price is at most
\* the ceiling; every item has a non-empty image_url.
C16_ReturnedSetInvariant ==
  (PreparedCall /\ fn_out.ok) =>
    \A r \in 1..Len(fn_out.results) :
      /\ \A i, j \in 1..Len(fn_out.results[r].v) :
           i # j => <<Lower(fn_out.results[r].v[i].title),
                      Lower(fn_out.results[r].v[i].shopping_keywords)>>
                    # <<Lower(fn_out.results[r].v[j].title),
                        Lower(fn_out.results[r].v[j].shopping_keywords)>>
      /\ \A i \in 1..Len(fn_out.results[r].v) :
           /\ fn_in.budget > 0 => fn_out.results[r].v[i].price_in_inr <= fn_in.budget
           /\ fn_out.results[r].v[i].image_url # <<>>

C16_Witness ==
  /\ PreparedCall /\ fn_out.ok
  /\ fn_in.budget = 4000 /\ fn_in.variant.kind = "same_title"
  /\ Len(fn_out.results) = 4

\* (C17) original statement: two items of one category with identical title
\* and shopping_keywords make validation fail at the second item with the
\* duplicate error, whatever the other fields of the two items are.
C17_Original ==
  (PreparedCall /\ fn_in.variant.kind = "dup" /\ fn_in.mode = "hits")
  => (fn_out.raised = "ValueError" /\ fn_out.error = "Duplicate look"
      /\ fn_out.cat = fn_in.variant.cat)

\* the error the second item of a duplicate pair runs into before the
\* duplicate check, "none" when it passes the field, price and budget checks
EarlierFailure(field, budget) ==
  CASE field = "blank_description" -> "Missing fields"
    [] field = "no_price" -> "Missing price"
    [] field = "pricey" /\ budget > 0 -> "Exceeds budget"
    [] OTHER -> "none"

\* (C17) amended: two items of one category with identical title and
\* shopping_keywords always make validation fail; when the items before the
\* second one are accepted, it fails at the second item, with the duplicate
\* error if that item passes the field, price and budget checks (whatever its
\* description, weather_note, style_tags and price are otherwise), and with
\* the error of the first of those checks it fails if it does not.
C17_DuplicateRejected ==
  (PreparedCall /\ fn_in.variant.kind = "dup") =>
    /\ ~fn_out.ok
    /\ fn_in.mode = "hits" =>
         /\ fn_out.raised = "ValueError"
         /\ fn_out.cat = fn_in.variant.cat
         /\ fn_out.error = (IF EarlierFailure(fn_in.variant.field, fn_in.budget) = "none"
                            THEN "Duplicate look"
                            ELSE EarlierFailure(fn_in.variant.field, fn_in.budget))

C17_Witness ==
  /\ PreparedCall /\ fn_in.variant.kind = "dup" /\ fn_in.variant.field = "price"
  /\ fn_in.variant.cat = "men" /\ fn_in.mode = "hits" /\ fn_in.budget = 4000
  /\ fn_out.error = "Duplicate look"

\* the price coerced for the item the variant changed
CoercedPrice == ItemsOf(fn_out.results, fn_in.variant.cat)[fn_in.variant.idx].price_in_inr

\* (C18) Price coercion: a numeric price is accepted as its integer part; a
\* string price is reduced to its digits and dots and parsed, validation
\* failing when nothing remains or the parse fails; a currency marker followed
\* by an integer amount with optional thousands separators is coerced to that
\* amount.
C18_PriceCoercion ==
  (PreparedCall /\ fn_in.variant.kind = "price" /\ fn_in.mode = "hits" /\ fn_in.budget = 0)
  => CASE fn_in.variant.field \in {"rupee", "rs_dot", "inr", "decimal"} ->
            fn_out.ok /\ CoercedPrice = 2500
       [] fn_in.variant.field = "num4500" -> fn_out.ok /\ CoercedPrice = 4500
       [] OTHER -> fn_out.raised = "ValueError" /\ fn_out.error = "Missing price"

\* (C20) Any error raised by the image lookup, HTTP-level or other, is caught
\* and treated as an empty result: the item fails with the no-imagery error
\* and the lookup's own error does not leave the validator.
C20_LookupErrorsAreEmptyResults ==
  (PreparedCall /\ fn_in.variant.kind = "base" /\ fn_in.mode \in {"http_error", "crash"})
  => (fn_out.raised = "ValueError" /\ fn_out.error = "No imagery")

\* ------------------------------------------------------------------------
\* All-or-nothing validation in the recommendation request
\* ------------------------------------------------------------------------
\* a mapping of exactly the four categories, each with four bound items
FourBound(results) ==
  /\ Len(results) = 4
  /\ \A r \in 1..4 :
       /\ results[r].k = Categories[r]
       /\ Len(results[r].v) = 4
       /\ \A i \in 1..4 : results[r].v[i].image_url # <<>> /\ results[r].v[i].title # <<>>

\* the call gave the complete mapping, or raised and gave nothing
AllOrNothing(r) == IF r.raised = "none" THEN FourBound(r.results) ELSE r.results = <<>>

\* the candidate of the current attempt passed parsing and the schema check
ReadyToPrepare ==
  /\ ParseText(raw_text).stage = "ok"
  /\ _is_valid_fashion_payload(ParseText(raw_text).doc)

\* (C19) _prepare_fashion_results either returns a mapping of exactly the four
\* categories with four fully bound items each, or raises and returns
\* nothing: one failing item fails the whole call. The response of a
\* recommendation request holds the mapping of a pass that did not fail, and
\* a failed request holds no items.
C19_AllOrNothing ==
  kind = "fashion" =>
    /\ (pc = "parse" /\ ReadyToPrepare) =>
         AllOrNothing(_prepare_fashion_results(env.search, env.city, env.budget,
                                               ParseText(raw_text).doc))
    /\ outcome.status = 200 =>
         /\ ReadyToPrepare
         /\ _prepare_fashion_results(env.search, env.city, env.budget,
                                     ParseText(raw_text).doc).raised = "none"
         /\ outcome.body.results
              = _prepare_fashion_results(env.search, env.city, env.budget,
                                         ParseText(raw_text).doc).results
         /\ FourBound(outcome.body.results)
    /\ outcome.status \notin {0, 200} => outcome.body = PyNone

C19_Witness ==
  /\ kind = "fashion" /\ pc = "done"
  /\ env.search = "hits" /\ env.budget = 4000
  /\ raw_text = Obj("pricey")
  /\ outcome.status = 502 /\ outcome.body = PyNone
  /\ outcome.detail.msg = "Exceeds budget" /\ outcome.detail.cat = "women"

\* ------------------------------------------------------------------------
\* compute_trip_insights applied to bounded inputs: itineraries as the
\* normalizer leaves them, with the preferences of the request
\* ------------------------------------------------------------------------
Act(time, title, description) ==
  PyDict(<<KV("time", PyStr(time)), KV("title", PyStr(title)), KV("description", PyStr(description))>>)

DayOf(summary, activities) ==
  PyDict(<<KV("summary", PyStr(summary)), KV("activities", PyList(activities))>>)

InsightDays ==
  { PyNone, PyList(<<>>), PyList(<<PyNum(1)>>),
    PyList(<<DayOf(<<"O", "l", "d", " ", "t", "o", "w", "n">>, <<Act(<<"0", "9", ":", "0", "0">>, <<"F", "o", "o", "d", " ", "w", "a", "l", "k", " ", "t", "o", " ", "f", "o", "r", "t">>, <<"L", "o", "c", "a", "l", " ", "m", "a", "r", "k", "e", "t", " ", "l", "u", "n", "c", "h">>),
                                   Act(<<"1", "1", ":", "0", "0">>, <<"T", "a", "x", "i", " ", "r", "i", "d", "e">>, <<"P", "r", "i", "v", "a", "t", "e", " ", "c", "a", "b", ",", " ", " ", "t", "a", "x", "i", " ", "b", "a", "c", "k">>)>>)>>),
    PyList(<<DayOf(<<"A", "r", "t", " ", "t", "r", "a", "i", "l">>, <<Act(<<"0", "6", ":", "0", "0">>, <<"S", "u", "n", "r", "i", "s", "e">>, <<"B", "e", "a", "c", "h">>),
                                    Act(<<"2", "1", ":", "3", "0">>, <<"D", "i", "n", "n", "e", "r">>, <<"S", "h", "a", "c", "k">>)>>)>>),
    PyList(<<DayOf(<<"N", "o", "r", "t", "h">>, <<Act(<<"0", "8", ":", "0", "0">>, <<"F", "o", "r", "t">>, <<"H", "i", "l", "l">>), Act(<<"2", "0", ":", "3", "0">>, <<"B", "a", "r">>, <<"J", "a", "z", "z">>)>>),
             DayOf(<<"S", "o", "u", "t", "h">>, <<Act(<<"0", "8", ":", "0", "0">>, <<"C", "o", "v", "e">>, <<"S", "w", "i", "m">>), Act(<<"1", "9", ":", "4", "0">>, <<"C", "a", "f", "e">>, <<"T", "e", "a">>)>>)>>),
    PyList(<<DayOf(<<"B", "u", "s", "y">>, [i \in 1..5 |-> PyDict(<<>>)])>>),
    PyList(<<DayOf(<<"G", "r", "e", "e", "n">>, <<Act(<<"1", "0", ":", "0", "0">>, <<"W", "a", "l", "k", "i", "n", "g", " ", "c", "y", "c", "l", "e", " ", "t", "o", "u", "r">>, <<"P", "u", "b", "l", "i", "c", " ", "M", "E", "T", "R", "O", " ", "t", "o", " ", "l", "o", "c", "a", "l", " ", "m", "a", "r", "k", "e", "t">>)>>)>>),
    PyList(<<DayOf(<<"W", "h", "e", "e", "l", "s">>, <<Act(<<"m", "o", "r", "n">>, <<"T", "a", "x", "i", " ", "c", "a", "b">>, <<"P", "r", "i", "v", "a", "t", "e", " ", "d", "r", "i", "v", "e", " ", "b", "y", " ", "S", "U", "V">>),
                                 Act(<<"2", "5", ":", "9", "9">>, <<"S", "p", "a">>, <<"Z", "e", "n", "?">>)>>)>>) }

InsightTotals == {PyNone, PyNum(0), PyNum(17000), PyNum(20000), PyNum(40000), PyNum(60000), PyNum(200000)}

InsightBreakdowns ==
  { PyNone,
    PyList(<<PyDict(<<KV("category", PyStr(<<"L", "o", "c", "a", "l", " ", "T", "r", "a", "n", "s", "p", "o", "r", "t">>)), KV("amount", PyNum(15000))>>),
             PyDict(<<KV("category", PyStr(<<"s", "t", "a", "y">>)), KV("amount", PyNum(9000))>>)>>),
    PyList(<<PyDict(<<KV("category", PyStr(<<"t", "r", "a", "n", "s", "p", "o", "r", "t">>)), KV("amount", PyNum(7000))>>),
             PyDict(<<KV("category", PyStr(<<"t", "r", "a", "n", "s", "p", "o", "r", "t">>)), KV("amount", PyStr(<<"9">>))>>),
             PyNum(3)>>) }

Advisories ==
  { PyNone, PyStr(<<" ">>), PyNum(5), PyStr(<<"H", "e", "a", "v", "y", " ", "r", "a", "i", "n", " ", "e", "x", "p", "e", "c", "t", "e", "d", " ", "T", "h", "u", "r", "s", "d", "a", "y">>),
    PyStr(<<"L", "i", "g", "h", "t", " ", "S", "h", "o", "w", "e", "r", "s">>), PyStr(<<"H", "e", "a", "t", " ", "w", "a", "v", "e">>), PyStr(<<"C", "l", "e", "a", "r", " ", "s", "k", "i", "e", "s">>), PyStr(<<"R", "a", "i", "n", "s", "t", "o", "r", "m">>) }

InsightBudgets == {20000, 50000}

InsightThemes == { <<<<"f", "o", "o", "d">>>>, <<<<"F", "o", "o", "d">>, <<"a", "r", "t">>>>, <<<<"s", "u", "r", "f">>, <<"y", "o", "g", "a">>, <<"z", "e", "n">>>> }

InsightDoc(days, total, breakdown, advisory) ==
  IF advisory = PyNone THEN ItineraryOf(days, total, breakdown)
  ELSE SetKey(ItineraryOf(days, total, breakdown), "weatherAdvisory", advisory)

InsightPrefs(budget, themes) == [Prefs EXCEPT !.budget = budget, !.themes = themes]

\* try: itinerary["insights"] = compute_trip_insights(itinerary, prefs)
ScoreInsights ==
  /\ fn_in.op = "insights" /\ fn_out = Pending
  /\ fn_out' = compute_trip_insights(fn_in.payload, InsightPrefs(fn_in.budget, fn_in.variant.themes))
  /\ UNCHANGED <<mvars, fn_in>>

InsightInit ==
  /\ MIdle /\ fn_out = Pending
  /\ \E d \in InsightDays, t \in InsightTotals, b \in InsightBreakdowns, a \in Advisories,
        budget \in InsightBudgets, themes \in InsightThemes :
       /\ ~NormalizeRaises(InsightDoc(d, t, b, a))
       /\ fn_in = [NoInput EXCEPT !.op = "insights", !.budget = budget,
                     !.variant = [kind |-> "themes", themes |-> themes],
                     !.payload = _normalize_itinerary(InsightDoc(d, t, b, a),
                                                      InsightPrefs(budget, themes))]

InsightNext == ScoreInsights
SpecInsights == InsightInit /\ [][InsightNext]_vars

\* ------------------------------------------------------------------------
\* Properties of the insight scorer
\* ------------------------------------------------------------------------
Reported == fn_in.op = "insights" /\ Applied /\ ~fn_out.raised

ScoreOf(report, id) == report.axes[CHOOSE i \in 1..Len(report.axes) : report.axes[i].id = id].score

ScoreSum(report) ==
  ScoreOf(report, "budget") + ScoreOf(report, "logistics") + ScoreOf(report, "weather")
  + ScoreOf(report, "impact") + ScoreOf(report, "experience")

InRange(lo, hi, n) == lo <= n /\ n <= hi

\* the total the budget and sustainability axes use
InputTotal == EffectiveTotal(_extract_total_cost(fn_in.payload), fn_in.budget)

\* C21: every report has five axes, its overallScore is the integer nearest to
\* the mean of the five axis scores, and every axis score lies in its clamp
\* range: budget [30,100], logistics [35,100], weather [30,100],
\* sustainability [25,100], experience [35,100].
C21_OverallAndClampRanges ==
  Reported =>
    /\ Len(fn_out.axes) = 5
    /\ 5 * fn_out.overallScore - ScoreSum(fn_out) \in -2..2
    /\ InRange(30, 100, ScoreOf(fn_out, "budget"))
    /\ InRange(35, 100, ScoreOf(fn_out, "logistics"))
    /\ InRange(30, 100, ScoreOf(fn_out, "weather"))
    /\ InRange(25, 100, ScoreOf(fn_out, "impact"))
    /\ InRange(35, 100, ScoreOf(fn_out, "experience"))

\* a report whose mean is no integer, with the budget axis at its lower clamp
\* and the sustainability axis at its upper clamp
C21_Witness ==
  /\ Reported
  /\ ScoreSum(fn_out) % 5 # 0
  /\ ScoreOf(fn_out, "budget") = 30
  /\ ScoreOf(fn_out, "impact") = 100

\* C22: budget axis. With total <= budget the score is min(100, integer part
\* of 82 + 25*(budget-total)/budget) and the reinvestment suggestion is emitted
\* exactly when budget-total exceeds 15% of budget; with total > budget the
\* score is max(30, integer part of 82 - 90*(total-budget)/budget), with one
\* over-budget alert and the guardrail suggestion; the reinvestment suggestion
\* and the over-budget alert never occur together; budget 50000 with total
\* 40000 scores 87 with the reinvestment suggestion.
Emitted(items, item) == Cardinality({i \in 1..Len(items) : items[i] = item})

WithinBudget(b, t, s) ==
  /\ s <= 100
  /\ s < 100 => b * (s - 82) <= 25 * (b - t) /\ 25 * (b - t) < b * (s - 81)
  /\ s = 100 => 25 * (b - t) >= 18 * b
  /\ Emitted(fn_out.suggestedActions, "Reinvest budget buffer")
       = (IF 100 * (b - t) > 15 * b THEN 1 ELSE 0)
  /\ Emitted(fn_out.alerts, "Projected spend exceeds budget") = 0
  /\ Emitted(fn_out.suggestedActions, "Enable budget guardrails") = 0

OverBudget(b, t, s) ==
  /\ s >= 30
  /\ s > 30 => b * s <= 82 * b - 90 * (t - b) /\ 82 * b - 90 * (t - b) < b * (s + 1)
  /\ s = 30 => 82 * b - 90 * (t - b) < 31 * b
  /\ Emitted(fn_out.alerts, "Projected spend exceeds budget") = 1
  /\ Emitted(fn_out.suggestedActions, "Enable budget guardrails") = 1
  /\ Emitted(fn_out.suggestedActions, "Reinvest budget buffer") = 0

C22_BudgetAxis ==
  Reported =>
    /\ IF InputTotal <= fn_in.budget
       THEN WithinBudget(fn_in.budget, InputTotal, ScoreOf(fn_out, "budget"))
       ELSE OverBudget(fn_in.budget, InputTotal, ScoreOf(fn_out, "budget"))
    /\ (fn_in.budget = 50000 /\ InputTotal = 40000) => ScoreOf(fn_out, "budget") = 87

\* the example: budget 50000, total 40000, score 87 with the reinvestment suggestion
C22_Witness ==
  /\ Reported /\ fn_in.budget = 50000 /\ InputTotal = 40000
  /\ ScoreOf(fn_out, "budget") = 87
  /\ Emitted(fn_out.suggestedActions, "Reinvest budget buffer") = 1

\* C23: weather axis. One branch is taken, in the priority order severe term >
\* rain or shower > heat > any other advisory > no advisory, scoring 55, 70,
\* 68, 78, 90; a severe advisory gets the severe-weather alert and the
\* indoor-shift suggestion and never the rain-gear suggestion. An advisory is
\* a text that is not blank: a whitespace-only text counts as no advisory.
AdvisoryIn == Get(fn_in.payload, "weatherAdvisory")
AdvisoryHas(terms) == IsStr(AdvisoryIn) /\ ContainsAny(Lower(AdvisoryIn.s), terms)

WeatherOutcome(score, alert, indoors, gear) ==
  /\ ScoreOf(fn_out, "weather") = score
  /\ Emitted(fn_out.alerts, "Severe weather flagged") = alert
  /\ Emitted(fn_out.suggestedActions, "Shift exposed activities indoors") = indoors
  /\ Emitted(fn_out.suggestedActions, "Pack light rain gear") = gear

WeatherByPriority(advised) ==
  IF advised /\ AdvisoryHas(SevereTerms) THEN WeatherOutcome(55, 1, 1, 0)
  ELSE IF advised /\ AdvisoryHas(RainTerms) THEN WeatherOutcome(70, 0, 0, 1)
  ELSE IF advised /\ AdvisoryHas({<<"h", "e", "a", "t">>}) THEN WeatherOutcome(68, 0, 0, 0)
  ELSE IF advised THEN WeatherOutcome(78, 0, 0, 0)
  ELSE WeatherOutcome(90, 0, 0, 0)

C23_WeatherPriority == Reported => WeatherByPriority(NonBlankStr(AdvisoryIn))

\* the statement as written: every non-empty advisory text takes one of the
\* first four branches
C23_Original == Reported => WeatherByPriority(IsStr(AdvisoryIn) /\ AdvisoryIn.s # <<>>)

\* an advisory with a severe term and a rain term: 55, never the rain-gear suggestion
C23_Witness ==
  /\ Reported
  /\ AdvisoryHas(SevereTerms) /\ AdvisoryHas(RainTerms)
  /\ WeatherOutcome(55, 1, 1, 0)

\* C27: sustainability axis. The score before the transport adjustment is
\* 74 + 4*g - 5*c, g and c the numbers of green and of carbon-heavy keywords
\* that occur in the lower-cased activity titles and descriptions: a keyword
\* counts once however often it occurs, and a keyword contained in another
\* (walk in walking) counts beside it. 12 is subtracted when the transport share
\* of the total exceeds 35%, 6 is added when it is under 15%, and the result is
\* clamped to [25,100].
InputBlob == activities_blob(DaysOf(fn_in.payload))
InputTransport == TransportCost(OrEmptyList(Get(fn_in.payload, "costBreakdown")))

Present(text, needles) == Cardinality({n \in needles : Occurrences(text, n) > 0})

\* 74 + 4*g - 5*c, adjusted by the transport share, clamped
Sustainability(g, c) ==
  LET share == IF 100 * InputTransport > 35 * InputTotal THEN 0 - 12
               ELSE IF 100 * InputTransport < 15 * InputTotal THEN 6 ELSE 0
      raw == 74 + 4 * g - 5 * c + share
  IN IF raw < 25 THEN 25 ELSE IF raw > 100 THEN 100 ELSE raw

C27_SustainabilityAxis ==
  Reported =>
    ScoreOf(fn_out, "impact")
      = Sustainability(Present(InputBlob, GreenKeywords), Present(InputBlob, CarbonKeywords))

\* the statement as written: a keyword occurring k times contributes k hits
C27_Original ==
  Reported =>
    ScoreOf(fn_out, "impact")
      = Sustainability(TotalOccurrences(InputBlob, GreenKeywords),
                       TotalOccurrences(InputBlob, CarbonKeywords))

\* a report on activities that name "taxi" twice and "walk" once
C27_Witness ==
  /\ Reported
  /\ Occurrences(InputBlob, <<"t", "a", "x", "i">>) = 2
  /\ Occurrences(InputBlob, <<"w", "a", "l", "k">>) = 1
  /\ ScoreOf(fn_out, "impact")
       = Sustainability(Present(InputBlob, GreenKeywords), Present(InputBlob, CarbonKeywords))

\* ------------------------------------------------------------------------
\* Properties of the enrichment stages and of persistence
\* ------------------------------------------------------------------------
\* the itinerary request got past normalization and image attachment
ReachedEnrichment ==
  /\ kind = "itinerary" /\ pc = "done" /\ hist.normalized # PyNone
  /\ ~NormalizeRaises(hist.normalized)
  /\ ~(env.search = "crash" /\ AttachLooksUp(_normalize_itinerary(hist.normalized, Prefs)))

\* the itinerary the enrichment stages were given
EnrichmentInput == _attach_activity_images(_normalize_itinerary(hist.normalized, Prefs), env.search)

\* C24: once the candidate is normalized, a failure of narration generation or
\* of insight scoring never makes the request an error (the only error left is
\* a failure of the storage call): the response carries themes, meta and id,
\* carries narrations exactly when narration generation did not raise, and
\* carries insights exactly when insight scoring did not raise, each stage
\* independently of the other.
C24_BestEffortEnrichment ==
  ReachedEnrichment =>
    /\ outcome.status # 200 =>
         env.store = "down" /\ outcome.detail = Err("save_itinerary failed", "none", <<>>)
    /\ env.store = "up" => outcome.status = 200 /\ outcome.body = candidate
    /\ {"days", "themes", "meta", "id"} \subseteq Keys(candidate)
    /\ HasKey(candidate, "narrations") <=> ~NarrationsRaise(EnrichmentInput)
    /\ HasKey(candidate, "insights") <=> ~InsightsRaise(EnrichmentInput)

\* a response returned with narrations and without insights: insight scoring
\* raised on a costBreakdown that is a number
C24_Witness ==
  /\ ReachedEnrichment /\ outcome.status = 200
  /\ InsightsRaise(EnrichmentInput) /\ ~NarrationsRaise(EnrichmentInput)
  /\ HasKey(outcome.body, "narrations") /\ ~HasKey(outcome.body, "insights")

\* the stored document with identifier id, but for the provider's results
SameButProvider(id, provider) ==
  /\ storage[id].itinerary = InitialStorage[id].itinerary
  /\ storage[id].preferences = InitialStorage[id].preferences
  /\ storage[id].updatedAt = InitialStorage[id].updatedAt
  /\ \A q \in {"hotels", "flights", "fashion"} \ {provider} :
       storage[id].providers[q] = InitialStorage[id].providers[q]

Written(id) == storage[id] # InitialStorage[id]

StorageAtEnd ==
  pc = "done" =>
    IF outcome.status # 200 THEN storage = InitialStorage
    ELSE IF kind = "itinerary"
    THEN /\ \A id \in StoreIds : Written(id) <=> PyStr(<<id>>) = Get(outcome.body, "id")
         /\ \E id \in StoreIds :
              /\ Written(id)
              /\ storage[id].itinerary = outcome.body
              /\ storage[id].preferences = Prefs
              /\ storage[id].updatedAt = "now"
              /\ hist.accepted # 0 /\ hist.normalized # PyNone
    ELSE IF env.itinerary_id = "" THEN storage = InitialStorage
    ELSE /\ \A id \in StoreIds \ {env.itinerary_id} : ~Written(id)
         /\ SameButProvider(env.itinerary_id, kind)
         /\ storage[env.itinerary_id].providers[kind] = outcome.body
         /\ hist.accepted # 0

\* C29: storage is written only by the step that ends a request with status
\* 200. A failed request leaves storage as it was; the itinerary request saves
\* the returned document under the identifier placed in it, with the
\* preferences and a timestamp, after a candidate was accepted and normalized;
\* the hotel, flight and fashion requests write only when an itinerary_id was
\* given, and then change nothing but their own entry under providers.
C29_StorageWrites ==
  /\ [](StorageAtEnd)
  /\ [][storage' # storage => (pc' = "done" /\ outcome'.status = 200)]_vars

\* a fashion request merged its results into a stored document that held an
\* itinerary and hotel results
C29_Witness ==
  /\ kind = "fashion" /\ pc = "done" /\ outcome.status = 200 /\ env.itinerary_id = "t1"
  /\ storage["t1"].providers.fashion = outcome.body
  /\ storage["t1"].providers.hotels # PyNone
  /\ storage["t1"].itinerary = StoredTrip.itinerary

\* ------------------------------------------------------------------------
\* Two validation calls in a row (two retry attempts, or two requests)
\* ------------------------------------------------------------------------
\* entry i of category c with the shopping_keywords of entry i - 1 in another
\* letter case and padded, under its own title
SameKeywords(c, i) ==
  WithEntry(BasePayload, c, i,
            SetKey(BaseEntry(c, i), "shopping_keywords", PyStr(<<" ", "K", Digit(i - 1), " ">>)))

RecallPayloads ==
  {BasePayload}
  \cup {SameKeywords(c, i) : c \in CategorySet, i \in 2..4}
  \cup {WithEntry(BasePayload, c, i, DupEntry(c, i, f)) :
          c \in CategorySet, i \in {2, 4}, f \in {"description", "pricey"}}

RecallInputs ==
  [op : {"recall"}, first : SearchModes, later : SearchModes, budget : Budgets,
   payload : RecallPayloads]

\* the first _prepare_fashion_results call
FirstCall ==
  /\ fn_in.op = "recall" /\ fn_out = Pending
  /\ fn_out' = [calls |-> << Prepared(_prepare_fashion_results(fn_in.first, <<"G", "o", "a">>,
                                                               fn_in.budget, fn_in.payload)) >>]
  /\ UNCHANGED <<fn_in, mvars>>

\* a later _prepare_fashion_results call on the same payload; the collaborator
\* may behave differently by then
LaterCall ==
  /\ fn_in.op = "recall" /\ fn_out # Pending /\ Len(fn_out.calls) = 1
  /\ fn_out' = [calls |-> Append(fn_out.calls,
                                 Prepared(_prepare_fashion_results(fn_in.later, <<"G", "o", "a">>,
                                                                   fn_in.budget, fn_in.payload)))]
  /\ UNCHANGED <<fn_in, mvars>>

RecallInit == MIdle /\ fn_in \in RecallInputs /\ fn_out = Pending
RecallNext == FirstCall \/ LaterCall
SpecRecall == RecallInit /\ [][RecallNext]_vars

\* ------------------------------------------------------------------------
\* Properties of the image cache
\* ------------------------------------------------------------------------
Recalled == fn_in.op = "recall" /\ fn_out # Pending

ModeOfCall(n) == IF n = 1 THEN fn_in.first ELSE fn_in.later

CacheKey(query) == Lower(Strip(query))

\* the image bound to item comes from a lookup that call n itself made, with
\* the collaborator behaving as it did during call n
ServedByOwnLookup(n, c, item) ==
  \E q \in 1..Len(fn_out.calls[n].lookups) :
    /\ CacheKey(fn_out.calls[n].lookups[q])
         = CacheKey(ImageQuery(item.shopping_keywords, item.title, <<"G", "o", "a">>, c))
    /\ Hero(search_images(ModeOfCall(n), fn_out.calls[n].lookups[q]).images) # PyNone
    /\ item.image_url = Hero(search_images(ModeOfCall(n), fn_out.calls[n].lookups[q]).images).link.s

\* (C25) Within one _prepare_fashion_results call the image-lookup collaborator
\* is invoked at most once per distinct trimmed, lower-cased query, failed
\* lookups included; and every image a call returns was looked up by that very
\* call, never taken from the cache of another call.
C25_CachePerCall ==
  Recalled =>
    \A n \in 1..Len(fn_out.calls) :
      /\ \A p, q \in 1..Len(fn_out.calls[n].lookups) :
           p # q => CacheKey(fn_out.calls[n].lookups[p]) # CacheKey(fn_out.calls[n].lookups[q])
      /\ \A r \in 1..Len(fn_out.calls[n].results) :
           \A i \in 1..Len(fn_out.calls[n].results[r].v) :
             ServedByOwnLookup(n, fn_out.calls[n].results[r].k, fn_out.calls[n].results[r].v[i])

\* a first call that served a repeated query from its cache and succeeded,
\* followed by a later call that had to look up again and found nothing
C25_Witness ==
  /\ Recalled /\ Len(fn_out.calls) = 2
  /\ fn_in.payload = SameKeywords("women", 3)
  /\ fn_out.calls[1].ok /\ Len(fn_out.calls[1].lookups) = 15
  /\ fn_in.later = "http_error"
  /\ ~fn_out.calls[2].ok /\ Len(fn_out.calls[2].lookups) = 1

\* ------------------------------------------------------------------------
\* Properties of the validation order
\* ------------------------------------------------------------------------
\* what the validator walks over in category c: the four entries, or the
\* category itself (idx 0) when it is no list of four
CategoryUnits(payload, c) ==
  IF ~IsList(Get(payload, c)) \/ Len(Get(payload, c).items) # 4
  THEN << [cat |-> c, idx |-> 0, entry |-> PyNone] >>
  ELSE [i \in 1..4 |-> [cat |-> c, idx |-> i, entry |-> Get(payload, c).items[i]]]

\* men, women, kids, accessories; entries in input order
Units(payload) ==
  CategoryUnits(payload, "men") \o CategoryUnits(payload, "women")
    \o CategoryUnits(payload, "kids") \o CategoryUnits(payload, "accessories")

\* the first of the checks made before the image lookup that unit u fails
EarlyFault(u, budget) ==
  CASE u.idx = 0 -> "Incomplete looks"
    [] ~IsDict(u.entry) -> "Invalid entry"
    [] \E f \in StringFields : FieldText(u.entry, f) = <<>> -> "Missing fields"
    [] PriceValue(Get(u.entry, "price_in_inr")) = -1 -> "Missing price"
    [] budget > 0 /\ PriceValue(Get(u.entry, "price_in_inr")) > budget -> "Exceeds budget"
    [] OTHER -> "none"

UnitQuery(u) ==
  ImageQuery(FieldText(u.entry, "shopping_keywords"), FieldText(u.entry, "title"),
             <<"G", "o", "a">>, u.cat)

UnitKey(u) ==
  <<Lower(FieldText(u.entry, "title")), Lower(FieldText(u.entry, "shopping_keywords"))>>

\* the check unit k fails, "none" when it passes all of them
Fault(units, k, mode, budget) ==
  IF EarlyFault(units[k], budget) # "none" THEN EarlyFault(units[k], budget)
  ELSE IF mode = "crash" THEN "search_images failed"
  ELSE IF mode # "hits" THEN "No imagery"
  ELSE IF \E j \in 1..(k - 1) :
            /\ units[j].cat = units[k].cat
            /\ EarlyFault(units[j], budget) = "none"
            /\ UnitKey(units[j]) = UnitKey(units[k])
  THEN "Duplicate look"
  ELSE "none"

\* position of the first failing unit, 0 when every unit passes
FirstFailing(units, mode, budget) ==
  LET failing == {k \in 1..Len(units) : Fault(units, k, mode, budget) # "none"}
  IN IF failing = {} THEN 0 ELSE CHOOSE k \in failing : \A j \in failing : k <= j

\* the units whose image is fetched when the walk stops at unit stop: those
\* before it, and unit stop itself when it passed the checks made before the
\* lookup; among units with the same cache key only the first
Fetched(units, stop, budget) ==
  LET reached == {k \in 1..Len(units) :
                    \/ stop = 0
                    \/ k < stop
                    \/ k = stop /\ EarlyFault(units[k], budget) = "none"}
  IN {k \in reached :
        \A j \in reached : j < k => CacheKey(UnitQuery(units[j])) # CacheKey(UnitQuery(units[k]))}

\* the queries of the units of set ks, in walking order
QueriesOf(units, ks) ==
  [p \in 1..Cardinality(ks) |->
     UnitQuery(units[CHOOSE k \in ks : Cardinality({j \in ks : j < k}) = p - 1])]

WalkAgrees(units, stop) ==
  /\ fn_out.ok <=> stop = 0
  /\ stop # 0 => /\ fn_out.error = Fault(units, stop, fn_in.mode, fn_in.budget)
                 /\ fn_out.cat = units[stop].cat
  /\ fn_out.lookups = QueriesOf(units, Fetched(units, stop, fn_in.budget))

\* (C26) _prepare_fashion_results walks the categories in the order men, women,
\* kids, accessories and the entries in input order, checks each entry for
\* fields, price, budget, image and duplicate key in that order and stops at
\* the first failing check: the queries sent to the image lookup are exactly
\* those of the entries before the first failing one, plus that entry's own
\* when it passed the field, price and budget checks.
C26_ValidationOrder ==
  PreparedCall =>
    WalkAgrees(Units(fn_in.payload),
               FirstFailing(Units(fn_in.payload), fn_in.mode, fn_in.budget))

\* entry 3 of women has a blank description and a price over the ceiling: the
\* call fails on the fields after six lookups
C26_Witness ==
  /\ PreparedCall /\ fn_in.mode = "hits" /\ fn_in.budget = 4000
  /\ fn_in.payload = WithEntry(BasePayload, "women", 3, DoubleEntry("women", 3, "fields_budget"))
  /\ fn_out.error = "Missing fields" /\ fn_out.cat = "women"
  /\ Len(fn_out.lookups) = 6

\* the sum of the numeric amounts of the mappings of costBreakdown, 0 when it
\* is no sequence
BreakdownSum(breakdown) ==
  IF ~IsList(breakdown) THEN 0
  ELSE LET Amount(item) ==
             IF IsDict(item) /\ IsNum(Get(item, "amount")) THEN Get(item, "amount").n ELSE 0
       IN SumSeq([i \in 1..Len(breakdown.items) |-> Amount(breakdown.items[i])])

ShapedActivity(activity) ==
  /\ IsDict(activity)
  /\ NonBlankStr(Get(activity, "title"))
  /\ NonBlankStr(Get(activity, "description"))
  /\ NonBlankStr(Get(activity, "location"))
  /\ HasKey(activity, "time") /\ Get(activity, "time") # PyNone
  /\ IsNum(Get(activity, "cost")) \/ IsStr(Get(activity, "cost"))
  /\ NonBlankStr(Get(activity, "source"))
  /\ IsList(Get(activity, "images"))

ShapedDay(day) ==
  /\ IsDict(day)
  /\ NonBlankStr(Get(day, "dateLabel"))
  /\ NonBlankStr(Get(day, "summary"))
  /\ IsList(Get(day, "activities"))
  /\ \A i \in 1..Len(Get(day, "activities").items) :
       ShapedActivity(Get(day, "activities").items[i])

ShapedDays(doc) ==
  /\ IsList(Get(doc, "days"))
  /\ \A d \in 1..Len(Get(doc, "days").items) : ShapedDay(Get(doc, "days").items[d])

ShapedTotals(before, doc) ==
  /\ IsNum(Get(doc, "totalEstimatedCost"))
  /\ ~IsNum(Get(before, "totalEstimatedCost"))
       => Get(doc, "totalEstimatedCost").n = BreakdownSum(Get(before, "costBreakdown"))
  /\ IsList(Get(doc, "costBreakdown"))

\* (C28) After _normalize_itinerary returns, for every input mapping: days is
\* a sequence of mappings, each with a non-blank dateLabel, a non-blank summary
\* and a sequence activities of mappings that have a non-blank title,
\* description and location, a time, a cost that is an integer or a string, a
\* non-blank source and a sequence images; totalEstimatedCost is numeric (the
\* sum of the numeric costBreakdown amounts when it was not numeric, 0 when
\* costBreakdown is empty or invalid) and costBreakdown is a sequence.
C28_NormalizedShape ==
  NormalizedOnce => (ShapedDays(fn_out.doc) /\ ShapedTotals(fn_in.payload, fn_out.doc))

\* what does hold: when days is a sequence of mappings, the normalized
\* document has the shape above (the destination of the preferences not blank)
ShapedWhenDaysAreMappings ==
  (NormalizedOnce /\ IsList(Get(fn_in.payload, "days"))
     /\ \A d \in 1..Len(DaysIn) : IsDict(DaysIn[d]))
  => (ShapedDays(fn_out.doc) /\ ShapedTotals(fn_in.payload, fn_out.doc))

\* ------------------------------------------------------------------------
\* Voice assistant: slot-filling session
\* ------------------------------------------------------------------------
FLOW == <<"origin", "destination", "start_date", "end_date", "travellers", "budget", "themes">>

UpperChar(c) ==
  IF \E i \in 1..Len(LowerLetters) : LowerLetters[i] = c
  THEN UpperLetters[CHOOSE i \in 1..Len(LowerLetters) : LowerLetters[i] = c]
  ELSE c

IsLetter(c) ==
  \E i \in 1..Len(LowerLetters) : LowerLetters[i] = c \/ UpperLetters[i] = c

\* str.title()
Title(s) ==
  [i \in 1..Len(s) |->
     IF i = 1 \/ ~IsLetter(s[i - 1]) THEN UpperChar(s[i]) ELSE LowerChar(s[i])]

\* re.search(r"\d+", text): the first run of digits, <<>> when there is none
FirstDigitRun(text) ==
  LET digits == {i \in 1..Len(text) : text[i] \in DigitChars}
  IN IF digits = {} THEN <<>>
     ELSE LET first == CHOOSE i \in digits : \A j \in digits : i <= j
              last == CHOOSE j \in digits :
                        /\ \A k \in first..j : k \in digits
                        /\ (j + 1) \notin digits
                        /\ j >= first
                        /\ \A m \in digits :
                             (m >= first /\ \A k \in first..m : k \in digits) => m <= j
          IN SubSeq(text, first, last)

\* "".join(re.findall(r"\d+", text))
AllDigits(text) == LET IsDigit(c) == c \in DigitChars IN SelectSeq(text, IsDigit)

words_to_numbers ==
  << <<<<"o", "n", "e">>, 1>>, <<<<"t", "w", "o">>, 2>>, <<<<"t", "h", "r", "e", "e">>, 3>>, <<<<"f", "o", "u", "r">>, 4>>, <<<<"f", "i", "v", "e">>, 5>>,
     <<<<"s", "i", "x">>, 6>> >>

MonthNames ==
  <<<<"j", "a", "n">>, <<"f", "e", "b">>, <<"m", "a", "r">>, <<"a", "p", "r">>, <<"m", "a", "y">>, <<"j", "u", "n">>, <<"j", "u", "l">>, <<"a", "u", "g">>, <<"s", "e", "p">>, <<"o", "c", "t">>,
    <<"n", "o", "v">>, <<"d", "e", "c">>>>

\* isoformat() of a date of the current year
IsoMonthDay(month, day) ==
  <<"2", "0", "2", "5", "-">> \o (IF month < 10 THEN <<"0">> ELSE <<>>) \o NatToStr(month) \o <<"-">>
    \o (IF day < 10 THEN <<"0">> ELSE <<>>) \o NatToStr(day)

\* date_parser.parse(utterance, fuzzy=True).date().isoformat(), None when the
\* parser raises. The parser is a library: a month name with a day number
\* gives that date; text with no digit and no month name is refused; for any
\* other text either outcome is possible.
ParseDate(lower) ==
  LET months == {m \in 1..12 : Contains(lower, MonthNames[m])}
      number == IF FirstDigitRun(lower) = <<>> THEN 0 ELSE DigitsToNat(FirstDigitRun(lower))
      month == CHOOSE m \in months : \A n \in months : m <= n
  IN IF months # {} /\ number \in 1..28 THEN {PyStr(IsoMonthDay(month, number))}
     ELSE IF months = {} /\ number = 0 /\ FirstDigitRun(lower) = <<>> THEN {PyNone}
     ELSE IF number \in 1..28 THEN {PyNone, PyStr(IsoMonthDay(1, number))}
     ELSE {PyNone, PyStr(IsoMonthDay(1, 1))}

\* utterance with every " and " replaced by ","
RECURSIVE AndToComma(_)
AndToComma(s) ==
  IF Len(s) < 5 THEN s
  ELSE IF SubSeq(s, 1, 5) = <<" ", "a", "n", "d", " ">> THEN <<",">> \o AndToComma(SubSeq(s, 6, Len(s)))
  ELSE <<Head(s)>> \o AndToComma(Tail(s))

\* text.split on the characters of seps
RECURSIVE SplitOn(_, _)
SplitOn(text, seps) ==
  LET cuts == {i \in 1..Len(text) : text[i] \in seps}
  IN IF cuts = {} THEN <<text>>
     ELSE LET cut == CHOOSE i \in cuts : \A j \in cuts : i <= j
          IN <<SubSeq(text, 1, cut - 1)>> \o SplitOn(SubSeq(text, cut + 1, Len(text)), seps)

\* [token.strip().title() for token in tokens if token.strip()]
TitledTokens(tokens) ==
  LET NonBlank(t) == Strip(t) # <<>>
      kept == SelectSeq(tokens, NonBlank)
  IN [i \in 1..Len(kept) |-> Title(Strip(kept[i]))]

\* _parse_slot_value(slot, utterance): the values it can return, PyNone for None
_parse_slot_value(slot, utterance) ==
  LET stripped == Strip(utterance)
      lower == Lower(stripped)
      words == {w \in 1..Len(words_to_numbers) : Contains(lower, words_to_numbers[w][1])}
      amount == DigitsToNat(AllDigits(lower))
      cleaned == TitledTokens(SplitOn(AndToComma(lower), {",", "&"}))
  IN IF stripped = <<>> THEN {PyNone}
     ELSE IF slot \in {"origin", "destination"} THEN {PyStr(Title(stripped))}
     ELSE IF slot \in {"start_date", "end_date"} THEN ParseDate(lower)
     ELSE IF slot = "travellers"
     THEN IF FirstDigitRun(lower) # <<>>
          THEN {PyNum(Larger(1, DigitsToNat(FirstDigitRun(lower))))}
          ELSE IF words # {}
          THEN {PyNum(words_to_numbers[CHOOSE w \in words : \A v \in words : w <= v][2])}
          ELSE {PyNone}
     ELSE IF slot = "budget"
     THEN IF AllDigits(lower) # <<>>
          THEN {PyNum(Larger(10000, IF amount < 5000 THEN amount * 100 ELSE amount))}
          ELSE {PyNone}
     ELSE IF slot = "themes"
     THEN IF cleaned # <<>> THEN {PyStr(JoinThemes(cleaned))} ELSE {PyNone}
     ELSE {PyStr(stripped)}

\* start_voice_session: the session record
NewSession ==
  [started |-> TRUE, current_index |-> 0, slots |-> <<>>, complete |-> FALSE,
   itinerary |-> PyNone, preferences |-> PyNone]

\* session["slots"]: a dictionary, in insertion order
SlotGet(slots, slot) ==
  IF \E i \in 1..Len(slots) : slots[i].k = slot
  THEN slots[CHOOSE i \in 1..Len(slots) : slots[i].k = slot].v
  ELSE PyNone

SlotSet(slots, slot, value) ==
  IF \E i \in 1..Len(slots) : slots[i].k = slot
  THEN [i \in 1..Len(slots) |-> IF slots[i].k = slot THEN KV(slot, value) ELSE slots[i]]
  ELSE Append(slots, KV(slot, value))

\* _next_slot(session): the slot to ask for, "none" when all are filled
_next_slot(sess) ==
  IF sess.current_index >= Len(FLOW) THEN "none" ELSE FLOW[sess.current_index + 1]

\* _build_preferences(session)
_build_preferences(sess) ==
  LET themes_text == IF SlotGet(sess.slots, "themes") = PyNone THEN <<>>
                     ELSE SlotGet(sess.slots, "themes").s
      theme_list == TitledTokens(SplitOn(themes_text, {","}))
  IN [origin |-> SlotGet(sess.slots, "origin"),
      destination |-> SlotGet(sess.slots, "destination"),
      startDate |-> SlotGet(sess.slots, "start_date"),
      endDate |-> SlotGet(sess.slots, "end_date"),
      budget |-> Clamp(10000, 500000, SlotGet(sess.slots, "budget").n),
      themes |-> IF theme_list = <<>> THEN << <<"H", "i", "g", "h", "l", "i", "g", "h", "t", "s">> >> ELSE theme_list,
      travellers |-> Clamp(1, 6, SlotGet(sess.slots, "travellers").n)]

\* the response of /message: HTTP status, the complete flag sent, whether the
\* itinerary generation ran and how it ended, the slot the message was read
\* for, the value parsed and the preferences generation was called with
Reply(status, complete, generated, slot, parsed, prefs) ==
  [status |-> status, complete |-> complete, generated |-> generated, slot |-> slot,
   parsed |-> parsed, preferences |-> prefs]

\* the itinerary generate_live_itinerary answers for the preferences
GeneratedFor(prefs) == [body |-> "itinerary", destination |-> prefs.destination]

FinalizeMarkingFirst(sess, slot, parsed, generation) ==
  IF generation = "ok"
  THEN [session |-> [sess EXCEPT !.complete = TRUE,
                                 !.itinerary = GeneratedFor(_build_preferences(sess)),
                                 !.preferences = _build_preferences(sess)],
        reply |-> Reply(200, TRUE, "ok", slot, parsed, _build_preferences(sess))]
  ELSE [session |-> [sess EXCEPT !.complete = TRUE],
        reply |-> Reply(500, FALSE, "failed", slot, parsed, _build_preferences(sess))]

\* _finalize_itinerary(session) and the response built from it; generation is
\* what _generate_itinerary did: "ok", or "fail" for any exception
_finalize_itinerary(sess, slot, parsed, generation) ==
  IF generation = "ok"
  THEN [session |-> [sess EXCEPT !.complete = TRUE,
                                 !.itinerary = GeneratedFor(_build_preferences(sess)),
                                 !.preferences = _build_preferences(sess)],
        reply |-> Reply(200, TRUE, "ok", slot, parsed, _build_preferences(sess))]
  ELSE [session |-> sess,
        reply |-> Reply(500, FALSE, "failed", slot, parsed, _build_preferences(sess))]

\* voice_session_message for an existing session: the session afterwards and
\* the response; parsed is the value _parse_slot_value returned, tts tells
\* whether speech synthesis works
voice_session_message(sess, message, parsed, generation, tts) ==
  IF sess.complete
  THEN [session |-> sess, reply |-> Reply(200, TRUE, "none", "none", PyNone, PyNone)]
  ELSE IF Strip(message) = <<>>
  THEN [session |-> sess, reply |-> Reply(400, FALSE, "none", "none", PyNone, PyNone)]
  ELSE IF _next_slot(sess) = "none"
  THEN _finalize_itinerary(sess, "none", PyNone, generation)
  ELSE IF parsed = PyNone
  THEN [session |-> sess,
        reply |-> Reply(IF tts = "up" THEN 200 ELSE 500, FALSE, "none", _next_slot(sess),
                        PyNone, PyNone)]
  ELSE LET filled == [sess EXCEPT !.slots = SlotSet(@, _next_slot(sess), parsed),
                                  !.current_index = @ + 1]
       IN IF _next_slot(filled) # "none"
          THEN [session |-> filled,
                reply |-> Reply(200, FALSE, "none", _next_slot(sess), parsed, PyNone)]
          ELSE _finalize_itinerary(filled, _next_slot(sess), parsed, generation)

Utterances ==
  {<<>>, <<" ">>, <<"g", "o", "a">>, <<"m", "a", "y", " ", "5">>,
   <<"3", "0", ",", "0", "0", "0">>, <<"f", "o", "o", "d", " ", "&", " ", "a", "r", "t">>}

VoiceRequest(message) == [op |-> "voice", message |-> message]

\* POST /api/v1/voice/session/start
start_voice_session ==
  /\ fn_in.op = "voice" /\ ~session.started
  /\ session' = NewSession
  /\ fn_in' = VoiceRequest(<<>>)
  /\ fn_out' = Reply(200, FALSE, "none", "none", PyNone, PyNone)
  /\ UNCHANGED <<kind, env, script, pc, attempt, calls, raw_text, last_error, candidate, outcome,
                 hist, storage>>

\* POST /api/v1/voice/session/{session_id}/message
VoiceMessage ==
  /\ fn_in.op = "voice"
  /\ \E message \in Utterances, generation \in {"ok", "fail"}, tts \in {"up", "down"} :
       IF ~session.started
       THEN /\ fn_out' = Reply(404, FALSE, "none", "none", PyNone, PyNone)
            /\ fn_in' = VoiceRequest(message)
            /\ UNCHANGED session
       ELSE \E parsed \in (IF session.complete \/ _next_slot(session) = "none" THEN {PyNone}
                           ELSE _parse_slot_value(_next_slot(session), message)) :
              /\ session' = voice_session_message(session, message, parsed, generation, tts).session
              /\ fn_out' = voice_session_message(session, message, parsed, generation, tts).reply
              /\ fn_in' = VoiceRequest(message)
  /\ UNCHANGED <<kind, env, script, pc, attempt, calls, raw_text, last_error, candidate, outcome,
                 hist, storage>>

VoiceInit == MIdle /\ fn_in = VoiceRequest(<<>>) /\ fn_out = Pending
VoiceNext == start_voice_session \/ VoiceMessage
SpecVoice == VoiceInit /\ [][VoiceNext]_vars

\* ------------------------------------------------------------------------
\* Properties of the voice session
\* ------------------------------------------------------------------------
SlotNames(slots) == [i \in 1..Len(slots) |-> slots[i].k]

\* the slots filled are the first current_index slots of FLOW, filled in that
\* order; a complete session has all seven and holds the itinerary generated
\* for the preferences built from them
SessionInOrder ==
  session.started =>
    /\ session.current_index \in 0..Len(FLOW)
    /\ SlotNames(session.slots) = SubSeq(FLOW, 1, session.current_index)
    /\ \A i \in 1..Len(session.slots) : session.slots[i].v # PyNone
    /\ session.complete =>
         /\ session.current_index = Len(FLOW)
         /\ session.preferences = _build_preferences(session)
         /\ session.itinerary = GeneratedFor(session.preferences)

\* one message to a started session
MessageStep ==
  /\ session'.started
  /\ session'.current_index \in {session.current_index, session.current_index + 1}
  /\ SubSeq(session'.slots, 1, Len(session.slots)) = session.slots
  /\ (Strip(fn_in'.message) = <<>> \/ (fn_out'.slot # "none" /\ fn_out'.parsed = PyNone))
       => session' = session
  /\ (session'.complete /\ ~session.complete)
       => (fn_out'.generated = "ok" /\ session'.current_index = Len(FLOW))
  /\ fn_out'.generated # "none" => session'.current_index = Len(FLOW)
  /\ fn_out'.generated = "failed" => ~session'.complete
  /\ (~session.complete /\ session.current_index = Len(FLOW) /\ Strip(fn_in'.message) # <<>>)
       => /\ fn_out'.generated \in {"ok", "failed"}
          /\ fn_out'.preferences = _build_preferences(session)
          /\ session'.slots = session.slots
  /\ session.complete => (fn_out'.generated = "none" /\ session' = session)

\* (C30) In a voice session, over any sequence of messages: slots are filled
\* strictly in FLOW order, each message raising current_index by at most one
\* and never lowering it; an empty message, or one whose value cannot be
\* parsed for the current slot, leaves the session unchanged; complete becomes
\* true only when all seven slots are filled and generation succeeded; after a
\* failed generation the session stays incomplete and the next non-empty
\* message generates again from the same slots; once complete, no message
\* triggers generation.
C30_VoiceSessionFlow ==
  [](SessionInOrder) /\ [][session.started => MessageStep]_vars

\* a session completed by a re-attempt: the message was read for no slot and
\* generation succeeded
C30_Witness ==
  /\ session.started /\ session.complete
  /\ fn_out # Pending /\ fn_out.slot = "none" /\ fn_out.generated = "ok"
  /\ Strip(fn_in.message) # <<>>
====
